---- MODULE Spec2Model ----
(***************************************************************************)
(* Candidex back end: the AI gateway (utils/aiClient.js), its fallback     *)
(* engine (fallbackQuestions.js, fallbackEvaluation.js), the in-memory     *)
(* rate limiter (middleware/rateLimiter.js), the interview routes and the  *)
(* interview controller.                                                   *)
(*                                                                         *)
(* Conventions.                                                            *)
(*  - A JavaScript string is a record [lead, body, n, trail]: `lead`       *)
(*    white-space characters, then n characters that neither start nor end *)
(*    with white space (spelled by `body` when the text matters), then     *)
(*    `trail` white-space characters.  trim() and .length are computed on  *)
(*    that record.  Strings that are searched (role, difficulty) are       *)
(*    sequences of characters.                                             *)
(*  - A JavaScript number is an integer count of halves (170 is 85, 171    *)
(*    is 85.5), so that Math.round has something to do; NaN is a sentinel. *)
(*  - A JavaScript value read from JSON is a record tagged by `t`.         *)
(***************************************************************************)
EXTENDS Integers, Sequences, FiniteSets, TLC

(***************************************************************************)
(* Bounds of the model.                                                    *)
(***************************************************************************)
\* gateway calls made in one behaviour of Spec
MaxCalls == 3

\* the clock of the rate limiter advances in steps of TickMs, MaxTicks times
TickMs == 30000

MaxTicks == 3

\* interview sessions created in one behaviour of SpecHttp
MaxSessions == 1

\* steps of TickMs the clock advances in a behaviour of SpecSweep
SweepTicks == 6

(***************************************************************************)
(* Strings.                                                                *)
(***************************************************************************)
Txt(body) == [t |-> "string", lead |-> 0, body |-> body, n |-> Len(body), trail |-> 0]

\* lead blanks, n non-blank characters whose spelling does not matter, trail blanks
Blob(lead, n, trail) ==
  [t |-> "string", lead |-> lead, body |-> "#", n |-> n, trail |-> trail]

EmptyString == Blob(0, 0, 0)

\* String.prototype.length
Length(s) == s.lead + s.n + s.trail

\* String.prototype.trim(): a string of white space only trims to the empty string
Trim(s) == [s EXCEPT !.lead = 0, !.trail = 0]

\* a string is falsy exactly when it is empty
Falsy(s) == Length(s) = 0

Upper == << "A", "B", "C", "D", "E", "F", "G", "H", "I", "J", "K", "L", "M",
            "N", "O", "P", "Q", "R", "S", "T", "U", "V", "W", "X", "Y", "Z" >>

Lower == << "a", "b", "c", "d", "e", "f", "g", "h", "i", "j", "k", "l", "m",
            "n", "o", "p", "q", "r", "s", "t", "u", "v", "w", "x", "y", "z" >>

ToLowerChar(c) ==
  IF \E i \in 1..Len(Upper) : Upper[i] = c
    THEN Lower[CHOOSE i \in 1..Len(Upper) : Upper[i] = c]
    ELSE c

\* String.prototype.toLowerCase() on a sequence of characters
toLowerCase(s) == [i \in 1..Len(s) |-> ToLowerChar(s[i])]

\* String.prototype.includes(k)
includes(s, k) ==
  \E i \in 1..(Len(s) - Len(k) + 1) : SubSeq(s, i, i + Len(k) - 1) = k

(***************************************************************************)
(* Numbers (in halves).                                                    *)
(***************************************************************************)
NaN == 0 - 1000000

Num(units) == 2 * units

IsInteger(x) == x # NaN /\ x % 2 = 0

\* Math.round: to the nearest integer, a tie going up
MathRound(x) == IF x = NaN THEN NaN ELSE ((x + 1) \div 2) * 2

\* Math.max / Math.min: NaN if either argument is NaN
MathMax(a, b) == IF a = NaN \/ b = NaN THEN NaN ELSE IF a >= b THEN a ELSE b

MathMin(a, b) == IF a = NaN \/ b = NaN THEN NaN ELSE IF a <= b THEN a ELSE b

\* the relational operators are false when an operand is NaN
Lt(a, b) == a # NaN /\ b # NaN /\ a < b

Gt(a, b) == a # NaN /\ b # NaN /\ a > b

Ge(a, b) == a # NaN /\ b # NaN /\ a >= b

Min2(a, b) == IF a <= b THEN a ELSE b

(***************************************************************************)
(* fallbackQuestions.js: the table and getFallbackQuestions.               *)
(***************************************************************************)
Q_easy_general ==
  << Txt("Tell me about yourself and your background."),
     Txt("What interests you most about this role?"),
     Txt("What are your key strengths?"),
     Txt("Where do you see yourself in 5 years?"),
     Txt("Why should we consider you for this position?") >>
Q_easy_technical ==
  << Txt("What programming languages are you most comfortable with?"),
     Txt("Describe a project you recently worked on."),
     Txt("How do you approach problem-solving?"),
     Txt("What development tools do you use regularly?"),
     Txt("How do you stay updated with technology trends?") >>
Q_easy_business ==
  << Txt("What experience do you have in this industry?"),
     Txt("How do you handle tight deadlines?"),
     Txt("Describe a time you worked in a team."),
     Txt("What motivates you in your work?"),
     Txt("How do you prioritize your tasks?") >>
Q_medium_general ==
  << Txt("Describe a challenging project you worked on. How did you handle it?"),
     Txt("How do you stay updated with industry trends?"),
     Txt("Can you explain a time when you had to work under pressure?"),
     Txt("What tools and technologies are you most comfortable with?"),
     Txt("How do you handle feedback and criticism?") >>
Q_medium_technical ==
  << Txt("Explain a complex technical problem you solved recently."),
     Txt("How do you ensure code quality in your projects?"),
     Txt("Describe your experience with version control and collaboration."),
     Txt("What is your approach to debugging complex issues?"),
     Txt("How do you balance technical debt with feature delivery?") >>
Q_medium_business ==
  << Txt("Describe a situation where you had to make a difficult decision."),
     Txt("How do you handle conflicting priorities?"),
     Txt("Explain a time you had to learn something new quickly."),
     Txt("How do you communicate technical concepts to non-technical stakeholders?"),
     Txt("Describe your experience with agile methodologies.") >>
Q_hard_general ==
  << Txt("Design a scalable system for a specific challenge. Walk me through your approach."),
     Txt("How would you optimize a performance bottleneck? Discuss trade-offs."),
     Txt("Describe a time when you had to make a difficult technical decision. What was your process?"),
     Txt("How do you approach architecting a new system from scratch?"),
     Txt("Explain how you would mentor a junior team member.") >>
Q_hard_technical ==
  << Txt("How would you design a distributed system to handle high traffic?"),
     Txt("Explain your approach to database optimization and scaling."),
     Txt("Describe how you would implement a microservices architecture."),
     Txt("How do you handle system reliability and fault tolerance?"),
     Txt("Explain your approach to security in application development.") >>
Q_hard_business ==
  << Txt("How would you lead a team through a major technical migration?"),
     Txt("Describe your approach to technical strategy and planning."),
     Txt("How do you balance innovation with stability in production systems?"),
     Txt("Explain how you would handle a critical production incident."),
     Txt("Describe your experience with cost optimization in cloud infrastructure.") >>

easy == <<"e", "a", "s", "y">>

medium == <<"m", "e", "d", "i", "u", "m">>

hard == <<"h", "a", "r", "d">>

\* fallbackQuestions[difficulty]: undefined for a key the table does not hold
HasDifficulty(d) == d \in {easy, medium, hard}

fallbackQuestions(d, category) ==
  CASE d = easy /\ category = "general" -> Q_easy_general
    [] d = easy /\ category = "technical" -> Q_easy_technical
    [] d = easy /\ category = "business" -> Q_easy_business
    [] d = medium /\ category = "general" -> Q_medium_general
    [] d = medium /\ category = "technical" -> Q_medium_technical
    [] d = medium /\ category = "business" -> Q_medium_business
    [] d = hard /\ category = "general" -> Q_hard_general
    [] d = hard /\ category = "technical" -> Q_hard_technical
    [] d = hard /\ category = "business" -> Q_hard_business

TechnicalKeywords ==
  { <<"d", "e", "v", "e", "l", "o", "p", "e", "r">>,
    <<"e", "n", "g", "i", "n", "e", "e", "r">>,
    <<"p", "r", "o", "g", "r", "a", "m", "m", "e", "r">>,
    <<"s", "o", "f", "t", "w", "a", "r", "e">>,
    <<"t", "e", "c", "h", "n", "i", "c", "a", "l">> }

BusinessKeywords ==
  { <<"m", "a", "n", "a", "g", "e", "r">>,
    <<"b", "u", "s", "i", "n", "e", "s", "s">>,
    <<"p", "r", "o", "d", "u", "c", "t">>,
    <<"a", "n", "a", "l", "y", "s", "t">> }

\* the category with the business keywords tested first
CategoryBusinessFirst(role) ==
  LET normalizedRole == toLowerCase(role) IN
  IF \E k \in BusinessKeywords : includes(normalizedRole, k) THEN "business"
  ELSE IF \E k \in TechnicalKeywords : includes(normalizedRole, k) THEN "technical"
  ELSE "general"

\* the category chosen from the role's keywords
Category(role) ==
  LET normalizedRole == toLowerCase(role) IN
  IF \E k \in TechnicalKeywords : includes(normalizedRole, k) THEN "technical"
  ELSE IF \E k \in BusinessKeywords : includes(normalizedRole, k) THEN "business"
  ELSE "general"

\* Array.prototype.slice(0, k)
SliceTo(arr, k) == SubSeq(arr, 1, Min2(k, Len(arr)))

\* the lookup with slice(0, 4)
getFallbackQuestionsFour(role, difficulty) ==
  LET normalizedDifficulty == toLowerCase(difficulty)
      category == Category(role)
      questions == IF HasDifficulty(normalizedDifficulty)
                     THEN fallbackQuestions(normalizedDifficulty, category)
                     ELSE fallbackQuestions(easy, "general")
  IN SliceTo(questions, 4)

getFallbackQuestions(role, difficulty) ==
  LET normalizedDifficulty == toLowerCase(difficulty)
      category == Category(role)
      \* every category is a key of every row, so the second alternative of the
      \* || chain is never the one taken
      questions == IF HasDifficulty(normalizedDifficulty)
                     THEN fallbackQuestions(normalizedDifficulty, category)
                     ELSE fallbackQuestions(easy, "general")
  IN SliceTo(questions, 5)

(***************************************************************************)
(* fallbackEvaluation.js: getFallbackEvaluation.                           *)
(***************************************************************************)
\* the quality of one answer, in hundredths
AnswerQuality(answer) ==
  IF Falsy(answer) \/ Length(Trim(answer)) < 10 THEN 30
  ELSE IF Length(answer) < 50 THEN 50
  ELSE IF Length(answer) < 150 THEN 75
  ELSE 90

RECURSIVE SumQuality(_)
SumQuality(answers) ==
  IF answers = <<>> THEN 0
  ELSE AnswerQuality(Head(answers)) + SumQuality(Tail(answers))

\* Math.round(50 + averageQuality * 40), averageQuality the mean of the
\* qualities: 0 / 0 is NaN for an empty list
BaseScore(answers) ==
  LET len == Len(answers) IN
  IF len = 0 THEN NaN
  ELSE Num((505 * len + 4 * SumQuality(answers)) \div (10 * len))

\* Math.floor(Math.random() * 15)
RandomDraws == 0..14

\* Math.min(100, Math.max(40, baseScore + draw - 7))
JitteredScore(baseScore, draw) ==
  IF baseScore = NaN THEN NaN
  ELSE MathMin(Num(100), MathMax(Num(40), baseScore + Num(draw) - Num(7)))

FallbackStrengths(clarityScore, correctnessScore, communicationScore) ==
  LET strengths ==
        (IF Ge(clarityScore, Num(70))
           THEN << Txt("Clear and articulate communication") >> ELSE << >>)
        \o (IF Ge(correctnessScore, Num(70))
              THEN << Txt("Demonstrated knowledge in responses") >> ELSE << >>)
        \o (IF Ge(communicationScore, Num(70))
              THEN << Txt("Effective explanation of concepts") >> ELSE << >>)
  IN IF Len(strengths) = 0
       THEN << Txt("Demonstrated effort in responses") >>
       ELSE strengths

FallbackAreas(clarityScore, correctnessScore, communicationScore) ==
  LET areasForImprovement ==
        (IF Lt(clarityScore, Num(70))
           THEN << Txt("Work on articulating thoughts more clearly") >> ELSE << >>)
        \o (IF Lt(correctnessScore, Num(70))
              THEN << Txt("Enhance technical depth and accuracy") >> ELSE << >>)
        \o (IF Lt(communicationScore, Num(70))
              THEN << Txt("Improve communication and explanation skills") >>
              ELSE << >>)
  IN IF Len(areasForImprovement) = 0
       THEN << Txt("Continue practicing to maintain high performance") >>
       ELSE areasForImprovement

\* Math.round((a + b + c) / 3) of three whole scores
RoundedMean3(a, b, c) ==
  IF a = NaN \/ b = NaN \/ c = NaN THEN NaN
  ELSE Num((2 * ((a + b + c) \div 2) + 3) \div 6)

FallbackFeedback(overallScore) ==
  IF Ge(overallScore, Num(80))
    THEN Txt("Good performance overall. You demonstrated solid understanding and communication skills.")
  ELSE IF Ge(overallScore, Num(65))
    THEN Txt("Adequate performance. There is room for improvement in clarity, correctness, and communication.")
  ELSE Txt("Your responses need improvement. Focus on providing more detailed answers and enhancing communication clarity.")

\* draws: the three values of Math.floor(Math.random() * 15), in call order
getFallbackEvaluation(answers, draws) ==
  LET baseScore == BaseScore(answers)
      clarityScore == JitteredScore(baseScore, draws[1])
      correctnessScore == JitteredScore(baseScore, draws[2])
      communicationScore == JitteredScore(baseScore, draws[3])
      overallScore == RoundedMean3(clarityScore, correctnessScore, communicationScore)
  IN [ clarityScore |-> clarityScore,
       correctnessScore |-> correctnessScore,
       communicationScore |-> communicationScore,
       strengths |-> FallbackStrengths(clarityScore, correctnessScore, communicationScore),
       areasForImprovement |-> FallbackAreas(clarityScore, correctnessScore, communicationScore),
       overallFeedback |-> FallbackFeedback(overallScore) ]

(***************************************************************************)
(* JavaScript values as they come out of JSON.parse.                       *)
(***************************************************************************)
JUndefined == [t |-> "undefined"]

JNull == [t |-> "null"]

JNum(halves) == [t |-> "number", num |-> halves]

JArr(items) == [t |-> "array", arr |-> items]

JObj(fields) == [t |-> "object", obj |-> fields]

\* v.f: undefined for a missing property or a primitive (reading a property of
\* null or undefined throws, see ReadThrows)
Get(v, f) ==
  IF v.t = "object" /\ f \in DOMAIN v.obj THEN v.obj[f] ELSE JUndefined

ReadThrows(v) == v.t \in {"null", "undefined"}

Truthy(v) ==
  CASE v.t \in {"undefined", "null"} -> FALSE
    [] v.t = "number" -> v.num # 0 /\ v.num # NaN
    [] v.t = "string" -> ~Falsy(v)
    [] OTHER -> TRUE

RECURSIVE DecimalDigits(_)
DecimalDigits(k) == IF k < 10 THEN 1 ELSE 1 + DecimalDigits(k \div 10)

\* String(v) for the values a JSON array can hold
ToStringJS(v) ==
  CASE v.t = "string" -> v
    [] v.t = "number" ->
         LET mag == IF v.num < 0 THEN 0 - v.num ELSE v.num IN
         Blob(0, (IF v.num < 0 THEN 1 ELSE 0) + DecimalDigits(mag \div 2)
                   + (IF mag % 2 = 1 THEN 2 ELSE 0), 0)
    [] v.t = "null" -> Txt("null")
    [] v.t = "undefined" -> Txt("undefined")
    [] v.t = "array" -> IF v.arr = << >> THEN EmptyString ELSE Txt("<joined items>")
    [] OTHER -> Txt("[object Object]")

Ok(val) == [ok |-> TRUE, val |-> val]

Throw(message) == [ok |-> FALSE, message |-> message]

(***************************************************************************)
(* The text of a completion: a sequence of tokens, each a run of white     *)
(* space, a markdown fence (``` or ```json, with its line break), prose,   *)
(* or one JSON document.                                                   *)
(***************************************************************************)
WS == [k |-> "ws"]

Fence == [k |-> "fence"]

Prose == [k |-> "prose"]

Doc(value) == [k |-> "json", doc |-> value]

Content(tokens) == [t |-> "content", tokens |-> tokens]

RECURSIVE TrimLeft(_)
TrimLeft(tokens) ==
  IF tokens # << >> /\ Head(tokens) = WS THEN TrimLeft(Tail(tokens)) ELSE tokens

RECURSIVE TrimRight(_)
TrimRight(tokens) ==
  IF tokens # << >> /\ tokens[Len(tokens)] = WS
    THEN TrimRight(SubSeq(tokens, 1, Len(tokens) - 1))
    ELSE tokens

TrimTokens(tokens) == TrimRight(TrimLeft(tokens))

NotFence(tok) == tok # Fence

\* jsonText.replace(/```json\n?/g, '').replace(/```\n?/g, '').trim(), applied
\* only when the trimmed text starts with a fence
StripFences(tokens) ==
  LET jsonText == TrimTokens(tokens) IN
  IF jsonText # << >> /\ Head(jsonText) = Fence
    THEN TrimTokens(SelectSeq(jsonText, NotFence))
    ELSE jsonText

NotWS(tok) == tok # WS

\* JSON.parse: one document, white space allowed around it
JSONParse(jsonText) ==
  LET solid == SelectSeq(jsonText, NotWS) IN
  IF Len(solid) = 1 /\ solid[1].k = "json"
    THEN Ok(solid[1].doc)
    ELSE Throw("Unexpected token in JSON")

\* completion.choices[0]?.message?.content: each choice is reduced to the
\* content of its message
FirstContent(completion) ==
  IF completion.choices = << >> THEN JUndefined ELSE completion.choices[1]

\* from the completion to the parsed payload
ParseCompletion(completion) ==
  LET content == FirstContent(completion) IN
  IF content.t # "content" \/ content.tokens = << >>
    THEN Throw("No response content from OpenAI")
    ELSE JSONParse(StripFences(content.tokens))

(***************************************************************************)
(* aiClient.js: validation of the parsed payloads.                         *)
(***************************************************************************)
IsValidQuestion(q) == q.t = "string" /\ Length(Trim(q)) > 0

\* the validation without its check of the entries
ValidateQuestionsCountOnly(parsed) ==
  LET questions == Get(parsed, "questions") IN
  IF ReadThrows(parsed)
    THEN Throw("Cannot read properties of null (reading 'questions')")
  ELSE IF ~Truthy(questions) \/ questions.t # "array"
    THEN Throw("Invalid response format: questions array not found")
  ELSE IF Len(questions.arr) # 5
    THEN Throw("Expected 5 questions, got another count")
  ELSE Ok(questions.arr)

ValidateQuestions(parsed) ==
  LET questions == Get(parsed, "questions") IN
  IF ReadThrows(parsed)
    THEN Throw("Cannot read properties of null (reading 'questions')")
  ELSE IF ~Truthy(questions) \/ questions.t # "array"
    THEN Throw("Invalid response format: questions array not found")
  ELSE IF Len(questions.arr) # 5
    THEN Throw("Expected 5 questions, got another count")
  ELSE IF Len(SelectSeq(questions.arr, IsValidQuestion)) # 5
    THEN Throw("Some questions are invalid or empty")
  ELSE Ok(questions.arr)

IsNumber(v) == v.t = "number"

\* score < 0 || score > 100
OutOfRange(v) == v.num < Num(0) \/ v.num > Num(100)

ScoresAreNumbers(o) ==
  /\ IsNumber(Get(o, "clarityScore"))
  /\ IsNumber(Get(o, "correctnessScore"))
  /\ IsNumber(Get(o, "communicationScore"))

ScoresOutOfRange(o) ==
  \/ OutOfRange(Get(o, "clarityScore"))
  \/ OutOfRange(Get(o, "correctnessScore"))
  \/ OutOfRange(Get(o, "communicationScore"))

\* the first throw of the loop over perQuestionEvaluations, if any
RECURSIVE ValidatePerQuestion(_, _)
ValidatePerQuestion(items, i) ==
  IF i > Len(items) THEN Ok(items)
  ELSE LET qEval == items[i] IN
    IF ReadThrows(qEval)
      THEN Throw("Cannot read properties of null (reading 'clarityScore')")
    ELSE IF ~ScoresAreNumbers(qEval)
      THEN Throw("Invalid response format: perQuestionEvaluations[i] scores must be numbers")
    ELSE IF ScoresOutOfRange(qEval)
      THEN Throw("Invalid response format: perQuestionEvaluations[i] scores must be between 0 and 100")
    ELSE IF Get(qEval, "feedback").t # "string"
      THEN Throw("Invalid response format: perQuestionEvaluations[i].feedback must be a string")
    ELSE ValidatePerQuestion(items, i + 1)

\* the validation without its check of the number of per-question evaluations
ValidateEvaluationAnyCount(parsed, questions) ==
  LET perQuestionEvaluations == Get(parsed, "perQuestionEvaluations") IN
  IF ReadThrows(parsed)
    THEN Throw("Cannot read properties of null (reading 'clarityScore')")
  ELSE IF ~ScoresAreNumbers(parsed)
    THEN Throw("Invalid response format: scores must be numbers")
  ELSE IF ScoresOutOfRange(parsed)
    THEN Throw("Invalid response format: scores must be between 0 and 100")
  ELSE IF Get(parsed, "strengths").t # "array" \/ Get(parsed, "areasForImprovement").t # "array"
    THEN Throw("Invalid response format: strengths and areasForImprovement must be arrays")
  ELSE IF Get(parsed, "overallFeedback").t # "string"
    THEN Throw("Invalid response format: overallFeedback must be a string")
  ELSE IF ~Truthy(perQuestionEvaluations) \/ perQuestionEvaluations.t # "array"
    THEN Throw("Invalid response format: perQuestionEvaluations must be an array")
  ELSE ValidatePerQuestion(perQuestionEvaluations.arr, 1)

ValidateEvaluation(parsed, questions) ==
  LET perQuestionEvaluations == Get(parsed, "perQuestionEvaluations") IN
  IF ReadThrows(parsed)
    THEN Throw("Cannot read properties of null (reading 'clarityScore')")
  ELSE IF ~ScoresAreNumbers(parsed)
    THEN Throw("Invalid response format: scores must be numbers")
  ELSE IF ScoresOutOfRange(parsed)
    THEN Throw("Invalid response format: scores must be between 0 and 100")
  ELSE IF Get(parsed, "strengths").t # "array" \/ Get(parsed, "areasForImprovement").t # "array"
    THEN Throw("Invalid response format: strengths and areasForImprovement must be arrays")
  ELSE IF Get(parsed, "overallFeedback").t # "string"
    THEN Throw("Invalid response format: overallFeedback must be a string")
  ELSE IF ~Truthy(perQuestionEvaluations) \/ perQuestionEvaluations.t # "array"
    THEN Throw("Invalid response format: perQuestionEvaluations must be an array")
  ELSE IF Len(perQuestionEvaluations.arr) # Len(questions)
    THEN Throw("Invalid response format: perQuestionEvaluations must have exactly questions.length items")
  ELSE ValidatePerQuestion(perQuestionEvaluations.arr, 1)

\* the clamp without Math.round
ClampOnly(score) == MathMax(Num(0), MathMin(Num(100), score))

\* Math.round(Math.max(0, Math.min(100, score)))
ClampRound(score) == MathRound(MathMax(Num(0), MathMin(Num(100), score)))

NonBlank(s) == Length(Trim(s)) > 0

\* arr.map(s => String(s)).filter(s => s.trim().length > 0)
StringItems(items) ==
  SelectSeq([i \in 1..Len(items) |-> ToStringJS(items[i])], NonBlank)

\* text.trim() || fallbackText
TrimOr(text, fallbackText) ==
  IF Falsy(Trim(text)) THEN fallbackText ELSE Trim(text)

NormalizePerQuestion(qEval) ==
  [ clarityScore |-> ClampRound(Get(qEval, "clarityScore").num),
    correctnessScore |-> ClampRound(Get(qEval, "correctnessScore").num),
    communicationScore |-> ClampRound(Get(qEval, "communicationScore").num),
    feedback |-> TrimOr(Get(qEval, "feedback"), Txt("No specific feedback provided.")) ]

\* the evaluation object built from a payload that passed ValidateEvaluation
NormalizeEvaluation(parsed) ==
  LET strengths == StringItems(Get(parsed, "strengths").arr)
      areasForImprovement == StringItems(Get(parsed, "areasForImprovement").arr)
      items == Get(parsed, "perQuestionEvaluations").arr
  IN [ clarityScore |-> ClampRound(Get(parsed, "clarityScore").num),
       correctnessScore |-> ClampRound(Get(parsed, "correctnessScore").num),
       communicationScore |-> ClampRound(Get(parsed, "communicationScore").num),
       strengths |-> IF Len(strengths) > 0 THEN strengths
                     ELSE << Txt("Demonstrated effort in responses") >>,
       areasForImprovement |-> IF Len(areasForImprovement) > 0 THEN areasForImprovement
                               ELSE << Txt("Continue practicing to improve") >>,
       overallFeedback |->
         TrimOr(Get(parsed, "overallFeedback"),
                Txt("Thank you for your responses. Keep practicing to improve your interview skills.")),
       perQuestionEvaluations |-> [i \in 1..Len(items) |-> NormalizePerQuestion(items[i])] ]

(***************************************************************************)
(* aiClient.js: the client cache, the timeout and the two gateway calls.   *)
(***************************************************************************)
\* Timeout for OpenAI API calls
OPENAI_TIMEOUT_MS == 9000

\* openaiClient = null
NoClient == 0

\* model: null
Null == "null"

\* the Error the timer rejects with
createTimeout(ms) == [ok |-> FALSE, message |-> "Request timeout after ms", ms |-> ms]

\* getOpenAIClient without its cache: a client is constructed on every call
\* that finds the key
getOpenAIClientEveryCall(cache, key, made) ==
  IF ~key
    THEN [ok |-> FALSE, cache |-> cache, made |-> made,
          message |-> "OPENAI_API_KEY is not set in environment variables. Please check your .env file."]
  ELSE [ok |-> TRUE, client |-> made + 1, cache |-> made + 1, made |-> made + 1]

\* cache: the value of openaiClient; key: whether OPENAI_API_KEY is set;
\* made: the clients constructed so far.  Returns the client or the throw,
\* with the value openaiClient has afterwards.
getOpenAIClient(cache, key, made) ==
  IF cache # NoClient
    THEN [ok |-> TRUE, client |-> cache, cache |-> cache, made |-> made]
  ELSE IF ~key
    THEN [ok |-> FALSE, cache |-> cache, made |-> made,
          message |-> "OPENAI_API_KEY is not set in environment variables. Please check your .env file."]
  ELSE [ok |-> TRUE, client |-> made + 1, cache |-> made + 1, made |-> made + 1]

Return(result) == [outcome |-> "returned", result |-> result]

Raise(error) == [outcome |-> "raised", result |-> [error |-> error.message]]

\* What the call met before its try block could finish: the throw of
\* getOpenAIClient, or the settlement of Promise.race by the timer or by the
\* provider (res: Ok(completion) or the rejection).
Attempt(by, res) == [by |-> by, res |-> res]

\* generateQuestions, the try block after the race
TryQuestions(attempt) ==
  IF ~attempt.res.ok THEN attempt.res
  ELSE LET parsed == ParseCompletion(attempt.res.val) IN
    IF ~parsed.ok THEN parsed
    ELSE LET valid == ValidateQuestions(parsed.val) IN
      IF ~valid.ok THEN valid
      ELSE Ok([questions |-> valid.val, usedFallback |-> FALSE, model |-> "gpt-4o-mini"])

\* the catch block rethrowing what it caught
CatchQuestionsRethrows(role, difficulty, error) == Raise(error)

\* the catch block returning what it caught next to the fallback questions
CatchQuestionsTellsError(role, difficulty, error) ==
  Return([questions |-> getFallbackQuestions(role, difficulty),
          usedFallback |-> TRUE, model |-> Null, error |-> error])

\* generateQuestions, the catch block
CatchQuestions(role, difficulty, error) ==
  Return([questions |-> getFallbackQuestions(role, difficulty),
          usedFallback |-> TRUE, model |-> Null])

generateQuestions(role, difficulty, attempt) ==
  LET try == TryQuestions(attempt) IN
  IF try.ok THEN Return(try.val) ELSE CatchQuestions(role, difficulty, try)

\* evaluateAnswers, the try block after the race
TryEvaluation(questions, attempt) ==
  IF ~attempt.res.ok THEN attempt.res
  ELSE LET parsed == ParseCompletion(attempt.res.val) IN
    IF ~parsed.ok THEN parsed
    ELSE LET valid == ValidateEvaluation(parsed.val, questions) IN
      IF ~valid.ok THEN valid
      ELSE Ok([evaluation |-> NormalizeEvaluation(parsed.val),
               usedFallback |-> FALSE, model |-> "gpt-4o-mini"])

\* the catch block naming the model in its result
CatchEvaluationKeepsModel(answers, draws, error) ==
  Return([evaluation |-> getFallbackEvaluation(answers, draws),
          usedFallback |-> TRUE,
          model |-> "gpt-4o-mini"])

\* evaluateAnswers, the catch block
CatchEvaluation(answers, draws, error) ==
  Return([evaluation |-> getFallbackEvaluation(answers, draws),
          usedFallback |-> TRUE, model |-> Null])

evaluateAnswers(questions, answers, draws, attempt) ==
  LET try == TryEvaluation(questions, attempt) IN
  IF try.ok THEN Return(try.val) ELSE CatchEvaluation(answers, draws, try)

\* why the call left the provider path ("none" when it did not): the throw of
\* getOpenAIClient, the timer, a rejection of the provider, or a throw of the
\* try block on the provider's completion
Cause(kind, questions, attempt) ==
  LET try == IF kind = "questions" THEN TryQuestions(attempt)
             ELSE TryEvaluation(questions, attempt)
  IN IF attempt.by = "config" THEN "config"
     ELSE IF attempt.by = "timer" THEN "timeout"
     ELSE IF ~attempt.res.ok THEN "provider_error"
     ELSE IF ~try.ok THEN "validation"
     ELSE "none"

(***************************************************************************)
(* Inputs of the gateway calls and answers of the provider.                *)
(***************************************************************************)
WebDeveloper == <<"W", "e", "b", " ", "D", "e", "v", "e", "l", "o", "p", "e", "r">>

ProductManager ==
  <<"P", "R", "O", "D", "U", "C", "T", " ", "m", "a", "n", "a", "g", "e", "r">>

Nurse == <<"N", "u", "r", "s", "e">>

Roles == {WebDeveloper, ProductManager, Nurse}

\* the controller passes difficulty.toLowerCase(), checked to be one of these
Difficulties == {easy, medium, hard}

\* five questions as a provider returns them, one with white space around it
ProviderQuestions ==
  << Txt("What is a closure?"), Blob(2, 31, 1), Txt("Explain event delegation."),
     Txt("What is the virtual DOM?"), Txt("How does prototypal inheritance work?") >>

AnswersEmpty == [i \in 1..5 |-> EmptyString]

AnswersLong == [i \in 1..5 |-> Blob(0, 200, 0)]

AnswersMixed == << Blob(0, 5, 0), Blob(0, 30, 0), Blob(0, 100, 0), Blob(0, 200, 0), Blob(3, 0, 2) >>

AnswersPadded == [i \in 1..5 |-> Blob(20, 12, 20)]

AnswerSets == {AnswersEmpty, AnswersLong, AnswersMixed, AnswersPadded}

\* the sessions whose answers are evaluated: role, difficulty and the questions
\* generateQuestions returned for them
EvaluatedSessions ==
  { [role |-> WebDeveloper, difficulty |-> hard,
     questions |-> getFallbackQuestions(WebDeveloper, hard)],
    [role |-> Nurse, difficulty |-> easy, questions |-> ProviderQuestions] }

\* the values of Math.floor(Math.random() * 15) the gateway runs are checked with
DrawSamples == {0, 7, 14}

DrawTriples == DrawSamples \X DrawSamples \X DrawSamples

\* only the fallback evaluation draws random numbers
Draws(kind) == IF kind = "evaluation" THEN DrawTriples ELSE {<< 0, 0, 0 >>}

Completion(content) == [choices |-> << content >>]

\* the payloads whose only defect is a score outside [0, 100]
RangeLabels == {"range_overall_high", "range_overall_low", "range_per_question"}

\* the payloads whose only defect is the length of perQuestionEvaluations
CountLabels == {"per_question_short", "per_question_long"}

\* what is wrong with an answer of the provider: nothing, only the range of a
\* score, only the number of per-question evaluations, or something else
Defect(label) ==
  IF label \in {"valid", "valid_fenced", "valid_fractions", "valid_defaults", "valid_other_items"}
    THEN "none"
  ELSE IF label \in RangeLabels THEN "range"
  ELSE IF label \in CountLabels THEN "count"
  ELSE "other"

Labelled(label, res) == [label |-> label, defect |-> Defect(label), res |-> res]

Resolved(label, tokens) == Labelled(label, Ok(Completion(Content(tokens))))

\* answers of the provider that do not depend on the kind of call
CommonAnswers ==
  { Labelled("provider_error", Throw("500 Internal Server Error")),
    Labelled("no_choices", Ok([choices |-> << >>])),
    Labelled("null_content", Ok(Completion(JNull))),
    Resolved("empty_content", << >>),
    Resolved("blank_content", << WS >>),
    Resolved("prose", << Prose >>),
    Resolved("json_null", << Doc(JNull) >>),
    Resolved("json_number", << Doc(JNum(Num(5))) >>) }

QuestionsDoc(items) == Doc(JObj([questions |-> JArr(items)]))

QuestionAnswers ==
  CommonAnswers \cup
  { Resolved("valid", << QuestionsDoc(ProviderQuestions) >>),
    Resolved("valid_fenced", << WS, Fence, QuestionsDoc(ProviderQuestions), WS, Fence, WS >>),
    Resolved("prose_then_fence", << Prose, Fence, QuestionsDoc(ProviderQuestions), Fence >>),
    Resolved("fence_with_prose", << Fence, Prose, QuestionsDoc(ProviderQuestions), Fence >>),
    Resolved("no_field", << Doc(JObj([items |-> JArr(ProviderQuestions)])) >>),
    Resolved("not_array", << Doc(JObj([questions |-> Txt("five questions")])) >>),
    Resolved("four", << QuestionsDoc(SubSeq(ProviderQuestions, 1, 4)) >>),
    Resolved("six", << QuestionsDoc(Append(ProviderQuestions, Txt("One more?"))) >>),
    Resolved("non_string", << QuestionsDoc([ProviderQuestions EXCEPT ![3] = JNum(Num(3))]) >>),
    Resolved("blank_item", << QuestionsDoc([ProviderQuestions EXCEPT ![5] = Blob(2, 0, 0)]) >>),
    Resolved("empty_item", << QuestionsDoc([ProviderQuestions EXCEPT ![1] = EmptyString]) >>) }

PerQ(clarity, correctness, communication, feedback) ==
  JObj([clarityScore |-> clarity, correctnessScore |-> correctness,
        communicationScore |-> communication, feedback |-> feedback])

GoodPerQ == PerQ(JNum(Num(80)), JNum(Num(60)), JNum(Num(70)), Txt("Good answer."))

GoodItems == << GoodPerQ,
                PerQ(JNum(Num(90)), JNum(Num(95)), JNum(Num(100)), Txt("Excellent.")),
                PerQ(JNum(Num(0)), JNum(Num(10)), JNum(Num(5)), Blob(1, 40, 1)),
                GoodPerQ,
                PerQ(JNum(Num(90)), JNum(Num(95)), JNum(Num(100)), Txt("Excellent again.")) >>

GoodFields ==
  [ clarityScore |-> JNum(Num(85)),
    correctnessScore |-> JNum(Num(90)),
    communicationScore |-> JNum(Num(78)),
    strengths |-> JArr(<< Txt("Clear structure") >>),
    areasForImprovement |-> JArr(<< Txt("More depth"), Blob(1, 12, 0) >>),
    overallFeedback |-> Blob(1, 60, 2),
    perQuestionEvaluations |-> JArr(GoodItems) ]

EvalDoc(fields) == << Doc(JObj(fields)) >>

\* GoodFields without one property
Without(f) == [g \in (DOMAIN GoodFields) \ {f} |-> GoodFields[g]]

EvaluationAnswers ==
  CommonAnswers \cup
  { Resolved("valid", EvalDoc(GoodFields)),
    Resolved("valid_fenced", << Fence, Doc(JObj(GoodFields)), Fence >>),
    Resolved("valid_fractions",
      EvalDoc([GoodFields EXCEPT
        !.clarityScore = JNum(171), !.correctnessScore = JNum(1), !.communicationScore = JNum(199),
        !.perQuestionEvaluations =
           JArr([GoodItems EXCEPT ![2] = PerQ(JNum(141), JNum(Num(0)), JNum(Num(100)), Txt("Fine."))])])),
    Resolved("valid_defaults",
      EvalDoc([GoodFields EXCEPT
        !.strengths = JArr(<< Blob(2, 0, 0), EmptyString, JArr(<< >>) >>),
        !.areasForImprovement = JArr(<< >>),
        !.overallFeedback = Blob(0, 0, 3),
        !.perQuestionEvaluations =
           JArr([GoodItems EXCEPT ![4] = PerQ(JNum(Num(50)), JNum(Num(50)), JNum(Num(50)), Blob(1, 0, 0))])])),
    Resolved("valid_other_items",
      EvalDoc([GoodFields EXCEPT
        !.strengths = JArr(<< JNum(Num(42)), JNull >>),
        !.areasForImprovement = JArr(<< JObj([note |-> Txt("x")]) >>)])),
    Resolved("range_overall_high", EvalDoc([GoodFields EXCEPT !.clarityScore = JNum(Num(150))])),
    Resolved("range_overall_low", EvalDoc([GoodFields EXCEPT !.communicationScore = JNum(0 - 1)])),
    Resolved("range_per_question",
      EvalDoc([GoodFields EXCEPT
        !.perQuestionEvaluations =
           JArr([GoodItems EXCEPT ![2] = PerQ(JNum(Num(90)), JNum(201), JNum(Num(100)), Txt("Excellent."))])])),
    Resolved("score_string", EvalDoc([GoodFields EXCEPT !.correctnessScore = Txt("90")])),
    Resolved("score_missing", EvalDoc(Without("clarityScore"))),
    Resolved("strengths_string", EvalDoc([GoodFields EXCEPT !.strengths = Txt("Clear structure")])),
    Resolved("areas_missing", EvalDoc(Without("areasForImprovement"))),
    Resolved("feedback_null", EvalDoc([GoodFields EXCEPT !.overallFeedback = JNull])),
    Resolved("per_question_missing", EvalDoc(Without("perQuestionEvaluations"))),
    Resolved("per_question_object", EvalDoc([GoodFields EXCEPT !.perQuestionEvaluations = GoodPerQ])),
    Resolved("per_question_short", EvalDoc([GoodFields EXCEPT !.perQuestionEvaluations = JArr(SubSeq(GoodItems, 1, 4))])),
    Resolved("per_question_long", EvalDoc([GoodFields EXCEPT !.perQuestionEvaluations = JArr(Append(GoodItems, GoodPerQ))])),
    Resolved("per_question_null_item", EvalDoc([GoodFields EXCEPT !.perQuestionEvaluations = JArr([GoodItems EXCEPT ![1] = JNull])])),
    Resolved("per_question_score_null",
      EvalDoc([GoodFields EXCEPT
        !.perQuestionEvaluations =
           JArr([GoodItems EXCEPT ![5] = PerQ(JNum(Num(90)), JNull, JNum(Num(100)), Txt("Excellent."))])])),
    Resolved("per_question_feedback_number",
      EvalDoc([GoodFields EXCEPT
        !.perQuestionEvaluations =
           JArr([GoodItems EXCEPT ![3] = PerQ(JNum(Num(0)), JNum(Num(10)), JNum(Num(5)), JNum(Num(7)))])])) }

ProviderAnswers(kind) == IF kind = "questions" THEN QuestionAnswers ELSE EvaluationAnswers

(***************************************************************************)
(* State.                                                                  *)
(***************************************************************************)
VARIABLES
  apiKey,             \* whether process.env.OPENAI_API_KEY is set
  openaiClient,       \* the cached client, NoClient when there is none
  clientsCreated,     \* how many times new OpenAI(...) has run
  call,               \* the gateway call in progress
  nCalls,             \* gateway calls made so far
  abandonedProviders, \* provider promises of earlier calls, lost to the timer, still pending
  abandonedTimers,    \* timers of earlier calls, lost to the provider, still armed
  now,                \* Date.now()
  userRequestTimestamps, \* the Map of the rate limiter: userId -> array of timestamps
  admissions,         \* per user, the times of the admissions younger than the window
  swept,              \* the users the cleanup has removed a timestamp of
  lastRequest,        \* the request the rate limiter handled last, and its verdict
  request,            \* the HTTP request being served, or the one answered last
  sessions,           \* the InterviewSession collection, in order of creation
  applied             \* the function applied last, with its arguments and its result

gatewayVars ==
  << apiKey, openaiClient, clientsCreated, call, nCalls, abandonedProviders, abandonedTimers >>

limiterVars == << now, userRequestTimestamps, admissions, swept, lastRequest >>

httpVars == << request, sessions >>

vars == << gatewayVars, limiterVars, httpVars, applied >>

NoResult == [none |-> TRUE]

IdleCall ==
  [ pc |-> "idle", kind |-> "none", role |-> << >>, difficulty |-> << >>,
    questions |-> << >>, answers |-> << >>,
    provider |-> "none", timer |-> "none", requests |-> 0,
    outcome |-> "none", result |-> NoResult,
    by |-> "none", cause |-> "none", defect |-> "none" ]

\* the call settling after a second provider request made on a failure
SettledAfterRetry(c, completion, attempt, defect) ==
  [ c EXCEPT !.pc = "done",
             !.outcome = completion.outcome,
             !.result = completion.result,
             !.by = attempt.by,
             !.cause = Cause(c.kind, c.questions, attempt),
             !.defect = defect,
             !.requests = IF Cause(c.kind, c.questions, attempt) \in {"none", "config"}
                            THEN @ ELSE @ + 1 ]

\* the call as it is once its promise has settled
Settled(c, completion, attempt, defect) ==
  [ c EXCEPT !.pc = "done",
             !.outcome = completion.outcome,
             !.result = completion.result,
             !.by = attempt.by,
             !.cause = Cause(c.kind, c.questions, attempt),
             !.defect = defect ]

\* the function body from the settlement of its try block to its return
Finish(c, attempt, draws) ==
  IF c.kind = "questions"
    THEN generateQuestions(c.role, c.difficulty, attempt)
    ELSE evaluateAnswers(c.questions, c.answers, draws, attempt)

\* generateQuestions / evaluateAnswers up to the await of Promise.race: the
\* client is fetched, the provider request issued and the timer armed; a
\* throw of getOpenAIClient goes to the catch block at once.
Invoke(kind, role, difficulty, questions, answers, draws) ==
  LET client == getOpenAIClient(openaiClient, apiKey, clientsCreated)
      c == [IdleCall EXCEPT !.kind = kind, !.role = role, !.difficulty = difficulty,
                            !.questions = questions, !.answers = answers]
      attempt == Attempt("config", Throw(client.message))
  IN /\ call.pc = "idle"
     /\ nCalls < MaxCalls
     /\ nCalls' = nCalls + 1
     /\ openaiClient' = client.cache
     /\ clientsCreated' = client.made
     /\ IF client.ok
          THEN call' = [c EXCEPT !.pc = "racing", !.provider = "pending",
                                 !.timer = "armed", !.requests = 1]
          ELSE call' = Settled(c, Finish(c, attempt, draws), attempt, "none")
     /\ UNCHANGED << apiKey, abandonedProviders, abandonedTimers >>

InvokeGenerateQuestions ==
  /\ \E role \in Roles, difficulty \in Difficulties :
       Invoke("questions", role, difficulty, << >>, << >>, << 0, 0, 0 >>)
  /\ UNCHANGED << limiterVars, httpVars, applied >>

InvokeEvaluateAnswers ==
  /\ \E s \in EvaluatedSessions, answers \in AnswerSets, draws \in DrawTriples :
       Invoke("evaluation", s.role, s.difficulty, s.questions, answers, draws)
  /\ UNCHANGED << limiterVars, httpVars, applied >>

\* the provider promise settles; the race takes it only if the timer has not
\* fired first
\* the provider promise settling into the function body whenever it settles,
\* race or no race
ProviderSettlesLate(answers, drawn) ==
  /\ call.provider = "pending"
  /\ \E answer \in answers, draws \in drawn :
       LET attempt == Attempt("provider", answer.res) IN
       call' = [Settled(call, Finish(call, attempt, draws), attempt, answer.defect)
                  EXCEPT !.provider = "settled"]
  /\ UNCHANGED << apiKey, openaiClient, clientsCreated, nCalls, abandonedProviders, abandonedTimers >>

ProviderSettlesWith(answers, drawn) ==
  /\ call.provider = "pending"
  /\ IF call.pc = "racing"
       THEN \E answer \in answers, draws \in drawn :
              LET attempt == Attempt("provider", answer.res) IN
              call' = [Settled(call, Finish(call, attempt, draws), attempt, answer.defect)
                         EXCEPT !.provider = "settled"]
       ELSE call' = [call EXCEPT !.provider = "settled"]
  /\ UNCHANGED << apiKey, openaiClient, clientsCreated, nCalls, abandonedProviders, abandonedTimers >>

ProviderSettles ==
  /\ ProviderSettlesWith(ProviderAnswers(call.kind), Draws(call.kind))
  /\ UNCHANGED << limiterVars, httpVars, applied >>

\* the timer of createTimeout fires; the race takes its rejection only if the
\* provider has not settled first
\* a timer whose firing rejects nothing
TimerFiresUnheard(drawn) ==
  /\ call.timer = "armed"
  /\ call' = [call EXCEPT !.timer = "fired"]
  /\ UNCHANGED << apiKey, openaiClient, clientsCreated, nCalls, abandonedProviders, abandonedTimers >>

TimerFiresWith(drawn) ==
  /\ call.timer = "armed"
  /\ IF call.pc = "racing"
       THEN \E draws \in drawn :
              LET attempt == Attempt("timer", createTimeout(OPENAI_TIMEOUT_MS)) IN
              call' = [Settled(call, Finish(call, attempt, draws), attempt, "none")
                         EXCEPT !.timer = "fired"]
       ELSE call' = [call EXCEPT !.timer = "fired"]
  /\ UNCHANGED << apiKey, openaiClient, clientsCreated, nCalls, abandonedProviders, abandonedTimers >>

TimerFires ==
  /\ TimerFiresWith(Draws(call.kind))
  /\ UNCHANGED << limiterVars, httpVars, applied >>

\* the caller has its result; what the call left pending stays pending
Continue ==
  /\ call.pc = "done"
  /\ call' = IdleCall
  /\ abandonedProviders' = abandonedProviders + (IF call.provider = "pending" THEN 1 ELSE 0)
  /\ abandonedTimers' = abandonedTimers + (IF call.timer = "armed" THEN 1 ELSE 0)
  /\ UNCHANGED << apiKey, openaiClient, clientsCreated, nCalls >>

CallerContinues ==
  /\ Continue
  /\ UNCHANGED << limiterVars, httpVars, applied >>

\* a provider promise nobody awaits any more settles
AbandonedProviderSettles ==
  /\ abandonedProviders > 0
  /\ abandonedProviders' = abandonedProviders - 1
  /\ UNCHANGED << apiKey, openaiClient, clientsCreated, call, nCalls, abandonedTimers >>
  /\ UNCHANGED << limiterVars, httpVars, applied >>

\* the timer of a race the provider won fires
AbandonedTimerFires ==
  /\ abandonedTimers > 0
  /\ abandonedTimers' = abandonedTimers - 1
  /\ UNCHANGED << apiKey, openaiClient, clientsCreated, call, nCalls, abandonedProviders >>
  /\ UNCHANGED << limiterVars, httpVars, applied >>

\* dotenv.config() (or the operator) sets OPENAI_API_KEY
KeyConfigured ==
  /\ ~apiKey
  /\ apiKey' = TRUE
  /\ UNCHANGED << openaiClient, clientsCreated, call, nCalls, abandonedProviders, abandonedTimers >>
  /\ UNCHANGED << limiterVars, httpVars, applied >>

(***************************************************************************)
(* rateLimiter.js: the store, the middleware and the periodic cleanup.     *)
(***************************************************************************)
\* aiRateLimiter(maxRequests = 5, windowMs = 60000)
DefaultMaxRequests == 5

DefaultWindowMs == 60000

\* the cleanup keeps what is younger than Date.now() - 60000
CleanupWindowMs == 60000

Users == {"u1", "u2"}

\* a request without req.user
Anonymous == "anonymous"

\* new Map()
EmptyStore == [u \in {} |-> << >>]

\* userRequestTimestamps.get(userId) || []
StoreGet(store, userId) == IF userId \in DOMAIN store THEN store[userId] ELSE << >>

\* userRequestTimestamps.set(userId, timestamps)
StoreSet(store, userId, timestamps) ==
  [u \in DOMAIN store \cup {userId} |-> IF u = userId THEN timestamps ELSE store[u]]

\* timestamps.filter(ts => ts > start)
Younger(timestamps, start) == SelectSeq(timestamps, LAMBDA ts : ts > start)

\* the middleware counting the request before it checks the limit
aiRateLimiterCountsFirst(maxRequests, windowMs, store, user, t) ==
  IF user = Anonymous
    THEN [next |-> TRUE, status |-> 0, store |-> store]
  ELSE LET timestamps == Append(Younger(StoreGet(store, user), t - windowMs), t)
       IN IF Len(timestamps) > maxRequests
            THEN [next |-> FALSE, status |-> 429, store |-> StoreSet(store, user, timestamps)]
            ELSE [next |-> TRUE, status |-> 0, store |-> StoreSet(store, user, timestamps)]

\* the middleware with > for >= in its check of the limit
aiRateLimiterOffByOne(maxRequests, windowMs, store, user, t) ==
  IF user = Anonymous
    THEN [next |-> TRUE, status |-> 0, store |-> store]
  ELSE LET timestamps == Younger(StoreGet(store, user), t - windowMs)
       IN IF Len(timestamps) > maxRequests
            THEN [next |-> FALSE, status |-> 429, store |-> store]
            ELSE [next |-> TRUE, status |-> 0,
                  store |-> StoreSet(store, user, Append(timestamps, t))]

\* the middleware answering 429 and calling next() all the same
aiRateLimiterRejectsAndContinues(maxRequests, windowMs, store, user, t) ==
  IF user = Anonymous
    THEN [next |-> TRUE, status |-> 0, store |-> store]
  ELSE LET timestamps == Younger(StoreGet(store, user), t - windowMs)
       IN IF Len(timestamps) >= maxRequests
            THEN [next |-> TRUE, status |-> 429, store |-> store]
            ELSE [next |-> TRUE, status |-> 0,
                  store |-> StoreSet(store, user, Append(timestamps, t))]

\* the middleware metering the requests without a user under one key
aiRateLimiterMetersAnonymous(maxRequests, windowMs, store, user, t) ==
  LET timestamps == Younger(StoreGet(store, user), t - windowMs)
  IN IF Len(timestamps) >= maxRequests
       THEN [next |-> FALSE, status |-> 429, store |-> store]
       ELSE [next |-> TRUE, status |-> 0,
             store |-> StoreSet(store, user, Append(timestamps, t))]

\* the middleware counting the timestamps of every user against one budget
aiRateLimiterOneBudget(maxRequests, windowMs, store, user, t) ==
  IF user = Anonymous
    THEN [next |-> TRUE, status |-> 0, store |-> store]
  ELSE LET windowStart == t - windowMs
           timestamps == Younger(StoreGet(store, user), windowStart)
           counted == { << u, i >> \in (DOMAIN store) \X (1..maxRequests) :
                          i <= Len(Younger(store[u], windowStart)) }
       IN IF Cardinality(counted) >= maxRequests
            THEN [next |-> FALSE, status |-> 429, store |-> store]
            ELSE [next |-> TRUE, status |-> 0,
                  store |-> StoreSet(store, user, Append(timestamps, t))]

\* The middleware aiRateLimiter(maxRequests, windowMs) returns, run on a
\* request of `user` at time t: whether it calls next(), the status it answers
\* with when it does not, and the store afterwards.
aiRateLimiter(maxRequests, windowMs, store, user, t) ==
  IF user = Anonymous
    THEN [next |-> TRUE, status |-> 0, store |-> store]
  ELSE LET windowStart == t - windowMs
           timestamps == Younger(StoreGet(store, user), windowStart)
       IN IF Len(timestamps) >= maxRequests
            THEN [next |-> FALSE, status |-> 429, store |-> store]
            ELSE [next |-> TRUE, status |-> 0,
                  store |-> StoreSet(store, user, Append(timestamps, t))]

\* the cleanup with a window of half a minute
CleanupHalfMinute(store, t) ==
  LET halfMinuteAgo == t - (CleanupWindowMs \div 2)
      kept == {u \in DOMAIN store : Younger(store[u], halfMinuteAgo) # << >>}
  IN [u \in kept |-> Younger(store[u], halfMinuteAgo)]

\* the cleanup setting every filtered list, the empty ones too
CleanupKeepsEmpty(store, t) ==
  LET oneMinuteAgo == t - CleanupWindowMs
  IN [u \in DOMAIN store |-> Younger(store[u], oneMinuteAgo)]

\* the callback of setInterval
Cleanup(store, t) ==
  LET oneMinuteAgo == t - CleanupWindowMs
      kept == {u \in DOMAIN store : Younger(store[u], oneMinuteAgo) # << >>}
  IN [u \in kept |-> Younger(store[u], oneMinuteAgo)]

\* the admissions of `user` that are less than DefaultWindowMs old at time t
Trailing(adm, user, t) == Younger(adm[user], t - DefaultWindowMs)

NoRequest ==
  [ seq |-> 0, user |-> Anonymous, endpoint |-> "none", status |-> 0,
    next |-> FALSE, trailing |-> 0 ]

\* what is remembered of a request: who sent it where, the verdict of the
\* middleware, and how many admissions of the sender were in the window when
\* it arrived; seq flips with every request
Handled(user, endpoint, verdict) ==
  [ seq |-> 1 - lastRequest.seq, user |-> user, endpoint |-> endpoint,
    status |-> verdict.status, next |-> verdict.next,
    trailing |-> IF user = Anonymous THEN 0 ELSE Len(Trailing(admissions, user, now)) ]

\* the middleware both AI routes are given, aiRateLimiter(), run on a request
Verdict(user) ==
  aiRateLimiter(DefaultMaxRequests, DefaultWindowMs, userRequestTimestamps, user, now)

\* each route's middleware keeping its timestamps under a key of its own
LimitPerRoute(user, endpoint) ==
  LET key == IF user = Anonymous THEN Anonymous ELSE user \o "/" \o endpoint
      verdict == aiRateLimiter(DefaultMaxRequests, DefaultWindowMs, userRequestTimestamps, key, now)
  IN /\ userRequestTimestamps' = verdict.store
     /\ admissions' = IF verdict.next /\ user # Anonymous
                        THEN [admissions EXCEPT ![user] = Append(Trailing(admissions, user, now), now)]
                        ELSE admissions
     /\ lastRequest' = Handled(user, endpoint, verdict)
     /\ UNCHANGED << now, swept >>

\* router.post('/start' | '/submit', protect, aiRateLimiter(), ...): the
\* middleware of an AI route handles a request
Limit(user, endpoint) ==
  LET verdict == Verdict(user)
  IN /\ userRequestTimestamps' = verdict.store
     /\ admissions' = IF verdict.next /\ user # Anonymous
                        THEN [admissions EXCEPT ![user] = Append(Trailing(admissions, user, now), now)]
                        ELSE admissions
     /\ lastRequest' = Handled(user, endpoint, verdict)
     /\ UNCHANGED << now, swept >>

LimiterHandlesRequest ==
  /\ \E user \in Users \cup {Anonymous}, endpoint \in {"start", "submit"} :
       Limit(user, endpoint)
  /\ UNCHANGED << gatewayVars, httpVars, applied >>

\* the interval timer runs the cleanup
CleanupRuns ==
  /\ userRequestTimestamps' = Cleanup(userRequestTimestamps, now)
  /\ swept' = swept \cup {u \in DOMAIN userRequestTimestamps :
                             StoreGet(userRequestTimestamps', u) # userRequestTimestamps[u]}
  /\ UNCHANGED << now, admissions, lastRequest >>
  /\ UNCHANGED << gatewayVars, httpVars, applied >>

\* time passes
Tick ==
  /\ now < MaxTicks * TickMs
  /\ now' = now + TickMs
  /\ admissions' = [u \in Users |-> Younger(admissions[u], now' - DefaultWindowMs)]
  /\ UNCHANGED << userRequestTimestamps, swept, lastRequest >>
  /\ UNCHANGED << gatewayVars, httpVars, applied >>

LimiterInit ==
  /\ now = 0
  /\ userRequestTimestamps = EmptyStore
  /\ admissions = [u \in Users |-> << >>]
  /\ swept = {}
  /\ lastRequest = NoRequest

(***************************************************************************)
(* interviewRoutes.js and interviewController.js: a request to one of the  *)
(* two AI routes goes through the rate limiter into its controller, which  *)
(* awaits the gateway and then writes the session.                         *)
(***************************************************************************)
\* req.body of POST /start
Hard == <<"H", "a", "r", "d">>

Expert == <<"e", "x", "p", "e", "r", "t">>

\* a field the body does not have
Missing == << >>

StartBodies ==
  { [role |-> WebDeveloper, difficulty |-> Hard],
    [role |-> WebDeveloper, difficulty |-> Expert],
    [role |-> Missing, difficulty |-> hard] }

\* req.body.answers of POST /submit: absent, a string, or an array of strings
NoAnswers == [t |-> "undefined", items |-> << >>]

AnswersAsText == [t |-> "string", items |-> << >>]

AnswerArray(items) == [t |-> "array", items |-> items]

\* sessionId 0 stands for a body without sessionId, k > 0 for the id of the
\* k-th session created
SubmitBodies ==
  [ sessionId : 0..MaxSessions,
    answers : {NoAnswers, AnswersAsText, AnswerArray(AnswersMixed),
               AnswerArray(SliceTo(AnswersMixed, 4))} ]

\* the provider answers and the random draws the requests are run against
HttpLabels == {"valid", "provider_error", "per_question_short", "four"}

HttpProviderAnswers(kind) == {a \in ProviderAnswers(kind) : a.label \in HttpLabels}

HttpDraws(kind) == IF kind = "evaluation" THEN {<< 0, 7, 14 >>} ELSE {<< 0, 0, 0 >>}

\* null, for the indices a session has by default
NoIndex == 0 - 1

\* the evaluation sub-document of a session nobody has submitted
NewEvaluation ==
  [ strengths |-> << >>, areasForImprovement |-> << >>,
    overallFeedback |-> EmptyString, perQuestionEvaluations |-> << >> ]

\* InterviewSession.create({ userId, role, difficulty, questions })
NewSession(userId, role, difficulty, questions) ==
  [ userId |-> userId, role |-> role, difficulty |-> difficulty, questions |-> questions,
    answers |-> << >>, evaluation |-> NewEvaluation,
    strongestQuestionIndex |-> NoIndex, weakestQuestionIndex |-> NoIndex,
    overallScore |-> Num(0), createdAt |-> now, aiUsage |-> << >> ]

NoHttpRequest ==
  [ seq |-> 0, stage |-> "idle", user |-> Anonymous, endpoint |-> "none",
    sessionId |-> 0, status |-> 0, gateway |-> FALSE, data |-> Null ]

\* res.status(status).json(...): the first response of a request is the one
\* the client gets
Respond(req, status) ==
  [req EXCEPT !.stage = "responded", !.status = IF req.status # 0 THEN req.status ELSE status]

\* next(error): the request goes to the error middleware
Fail(req) == [req EXCEPT !.stage = "failed"]

\* the controller awaits the gateway
Await(req) == [req EXCEPT !.stage = "awaiting", !.gateway = TRUE]

\* startInterview up to its await of generateQuestions
startInterview(req, body) ==
  IF body.role = Missing \/ body.difficulty = Missing
    THEN request' = Respond(req, 400) /\ UNCHANGED << gatewayVars, sessions >>
  ELSE IF ~(toLowerCase(body.difficulty) \in {easy, medium, hard})
    THEN request' = Respond(req, 400) /\ UNCHANGED << gatewayVars, sessions >>
  ELSE /\ Len(sessions) < MaxSessions
       /\ Invoke("questions", body.role, toLowerCase(body.difficulty), << >>, << >>, << 0, 0, 0 >>)
       /\ request' = Await(req)
       /\ UNCHANGED sessions

\* InterviewSession.findOne({ _id: sessionId, userId })
FindOne(sessionId, userId) ==
  sessionId \in 1..Len(sessions) /\ sessions[sessionId].userId = userId

\* submitInterview up to its await of evaluateAnswers
submitInterview(req, body) ==
  IF body.sessionId = 0 \/ body.answers.t = "undefined"
    THEN request' = Respond(req, 400) /\ UNCHANGED << gatewayVars, sessions >>
  ELSE IF body.answers.t # "array"
    THEN request' = Respond(req, 400) /\ UNCHANGED << gatewayVars, sessions >>
  ELSE IF ~FindOne(body.sessionId, req.user)
    THEN request' = Respond(req, 404) /\ UNCHANGED << gatewayVars, sessions >>
  ELSE IF Len(body.answers.items) # Len(sessions[body.sessionId].questions)
    THEN request' = Respond(req, 400) /\ UNCHANGED << gatewayVars, sessions >>
  ELSE LET interviewSession == sessions[body.sessionId] IN
       /\ \E draws \in HttpDraws("evaluation") :
            Invoke("evaluation", interviewSession.role, interviewSession.difficulty,
                   interviewSession.questions, body.answers.items, draws)
       /\ request' = Await(req)
       /\ UNCHANGED sessions

\* the request as the middleware of its route leaves it
Arrived(user, endpoint, sessionId) ==
  [NoHttpRequest EXCEPT !.seq = 1 - request.seq, !.user = user, !.endpoint = endpoint,
                        !.sessionId = sessionId, !.status = Verdict(user).status]

\* the middleware has answered and not called next()
Stopped(req) ==
  /\ request' = Respond(req, req.status)
  /\ UNCHANGED << gatewayVars, sessions >>

\* router.post('/start', protect, aiRateLimiter(), startInterview): the request
\* of an authenticated user runs through the middleware and, if that calls
\* next(), through the controller
StartRequest ==
  /\ request.stage # "awaiting"
  /\ UNCHANGED applied
  /\ \E user \in Users, body \in StartBodies :
       /\ Limit(user, "start")
       /\ IF Verdict(user).next
            THEN startInterview(Arrived(user, "start", 0), body)
            ELSE Stopped(Arrived(user, "start", 0))

\* router.post('/submit', protect, aiRateLimiter(), submitInterview)
SubmitRequest ==
  /\ request.stage # "awaiting"
  /\ UNCHANGED applied
  /\ \E user \in Users, body \in SubmitBodies :
       /\ Limit(user, "submit")
       /\ IF Verdict(user).next
            THEN submitInterview(Arrived(user, "submit", body.sessionId), body)
            ELSE Stopped(Arrived(user, "submit", body.sessionId))

\* evaluation.perQuestionEvaluations.map(...): index and average of each
\* question, the average held as the sum of the three scores, which orders
\* the questions as their thirds do
QuestionAverages(items) ==
  [ i \in 1..Len(items) |->
      [ index |-> i - 1,
        average |-> items[i].clarityScore + items[i].correctnessScore
                      + items[i].communicationScore ] ]

RECURSIVE ReduceStrongestKeepsLast(_, _, _)
\* the reduce with >= for >
ReduceStrongestKeepsLast(averages, i, max) ==
  IF i > Len(averages) THEN max
  ELSE ReduceStrongestKeepsLast(averages, i + 1,
                                IF averages[i].average >= max.average THEN averages[i] ELSE max)

RECURSIVE ReduceStrongest(_, _, _)
\* questionAverages.reduce((max, current) => current.average > max.average ? current : max)
ReduceStrongest(averages, i, max) ==
  IF i > Len(averages) THEN max
  ELSE ReduceStrongest(averages, i + 1,
                       IF averages[i].average > max.average THEN averages[i] ELSE max)

RECURSIVE ReduceWeakest(_, _, _)
\* questionAverages.reduce((min, current) => current.average < min.average ? current : min)
ReduceWeakest(averages, i, min) ==
  IF i > Len(averages) THEN min
  ELSE ReduceWeakest(averages, i + 1,
                     IF averages[i].average < min.average THEN averages[i] ELSE min)

\* evaluation.perQuestionEvaluations, undefined on an evaluation without it
HasPerQuestion(evaluation) == "perQuestionEvaluations" \in DOMAIN evaluation

PerQuestion(evaluation) ==
  IF HasPerQuestion(evaluation) THEN evaluation.perQuestionEvaluations ELSE << >>

\* the session saved with a usage entry for every evaluation, the fallback's too
SubmittedCountsFallback(interviewSession, answers, evaluationResult) ==
  LET evaluation == evaluationResult.evaluation
      detailed == /\ HasPerQuestion(evaluation)
                  /\ Len(PerQuestion(evaluation)) = Len(interviewSession.questions)
      questionAverages == QuestionAverages(PerQuestion(evaluation))
  IN [ interviewSession EXCEPT
         !.answers = answers,
         !.evaluation = evaluation,
         !.overallScore = RoundedMean3(evaluation.clarityScore, evaluation.correctnessScore,
                                       evaluation.communicationScore),
         !.strongestQuestionIndex =
           IF detailed THEN ReduceStrongest(questionAverages, 2, questionAverages[1]).index
           ELSE NoIndex,
         !.weakestQuestionIndex =
           IF detailed THEN ReduceWeakest(questionAverages, 2, questionAverages[1]).index
           ELSE NoIndex,
         !.aiUsage = Append(@, "evaluation") ]

\* the session as submitInterview saves it
Submitted(interviewSession, answers, evaluationResult) ==
  LET evaluation == evaluationResult.evaluation
      detailed == /\ HasPerQuestion(evaluation)
                  /\ Len(PerQuestion(evaluation)) = Len(interviewSession.questions)
      questionAverages == QuestionAverages(PerQuestion(evaluation))
  IN [ interviewSession EXCEPT
         !.answers = answers,
         !.evaluation = evaluation,
         !.overallScore = RoundedMean3(evaluation.clarityScore, evaluation.correctnessScore,
                                       evaluation.communicationScore),
         !.strongestQuestionIndex =
           IF detailed THEN ReduceStrongest(questionAverages, 2, questionAverages[1]).index
           ELSE NoIndex,
         !.weakestQuestionIndex =
           IF detailed THEN ReduceWeakest(questionAverages, 2, questionAverages[1]).index
           ELSE NoIndex,
         !.aiUsage = IF evaluationResult.model # Null THEN Append(@, "evaluation") ELSE @ ]

\* InterviewSession.find({ userId, overallScore: { $exists: true, $ne: null } }),
\* in the order of the collection
Find(collection, userId) ==
  SelectSeq(collection, LAMBDA session : /\ session.userId = userId
                                         /\ "overallScore" \in DOMAIN session)

RECURSIVE Sum(_)
\* numbers.reduce((sum, x) => sum + x, 0)
Sum(numbers) ==
  IF numbers = << >> THEN 0
  ELSE LET rest == Sum(SubSeq(numbers, 1, Len(numbers) - 1))
           last == numbers[Len(numbers)]
       IN IF rest = NaN \/ last = NaN THEN NaN ELSE rest + last

OverallScores(interviews) == [i \in 1..Len(interviews) |-> interviews[i].overallScore]

\* Math.round((totalScore / totalInterviews) * 100) / 100, in hundredths
AverageScore(interviews) ==
  LET totalScore == Sum(OverallScores(interviews))
      totalInterviews == Len(interviews)
  IN IF totalScore = NaN THEN NaN
     ELSE (100 * totalScore + totalInterviews) \div (2 * totalInterviews)

\* session.evaluation[score] || 0
ScoreOrZero(evaluation, score) ==
  IF score \in DOMAIN evaluation /\ evaluation[score] # NaN THEN evaluation[score] ELSE 0

\* skillTotals after the forEach; every session has an evaluation object
SkillTotal(interviews, score) ==
  Sum([i \in 1..Len(interviews) |-> ScoreOrZero(interviews[i].evaluation, score)])

Skills ==
  << [skill |-> "clarity", score |-> "clarityScore"],
     [skill |-> "correctness", score |-> "correctnessScore"],
     [skill |-> "communication", score |-> "communicationScore"] >>

RECURSIVE ReduceSkill(_, _, _)
\* Object.entries(skillAverages).reduce((max, [skill, avg]) => avg > max.average ? ... : max,
\* { skill: null, average: -Infinity }); the averages have one divisor, so the
\* totals compare as they do
ReduceSkill(interviews, i, max) ==
  IF i > Len(Skills) THEN max
  ELSE LET total == SkillTotal(interviews, Skills[i].score)
       IN ReduceSkill(interviews, i + 1,
                      IF max.skill = Null \/ total > max.total
                        THEN [skill |-> Skills[i].skill, total |-> total]
                        ELSE max)

RECURSIVE SortByDateTiesTurned(_)
\* the sort putting a session in front of those of its date
SortByDateTiesTurned(interviews) ==
  IF interviews = << >> THEN << >>
  ELSE LET sorted == SortByDateTiesTurned(SubSeq(interviews, 1, Len(interviews) - 1))
           session == interviews[Len(interviews)]
           k == Cardinality({i \in 1..Len(sorted) : sorted[i].createdAt > session.createdAt})
       IN SubSeq(sorted, 1, k) \o << session >> \o SubSeq(sorted, k + 1, Len(sorted))

RECURSIVE SortByDate(_)
\* [...completedInterviews].sort((a, b) => new Date(b.createdAt) - new Date(a.createdAt)):
\* newest first, sessions of one date in their order
SortByDate(interviews) ==
  IF interviews = << >> THEN << >>
  ELSE LET sorted == SortByDate(SubSeq(interviews, 1, Len(interviews) - 1))
           session == interviews[Len(interviews)]
           k == Cardinality({i \in 1..Len(sorted) : sorted[i].createdAt >= session.createdAt})
       IN SubSeq(sorted, 1, k) \o << session >> \o SubSeq(sorted, k + 1, Len(sorted))

LastFiveScores(interviews) ==
  LET sortedByDate == SortByDate(interviews)
      five == SliceTo(sortedByDate, 5)
  IN [i \in 1..Len(five) |-> [score |-> five[i].overallScore, date |-> five[i].createdAt]]

(***************************************************************************)
(* The numbers of JavaScript are IEEE 754 doubles.  The means the trend    *)
(* compares are quotients of small whole numbers, which a double holds     *)
(* only to 53 significant binary digits.  A value 0 <= x < 128 is written  *)
(* here in five limbs of 15 binary digits, x = limb[1] + limb[2] / 2^15 +  *)
(* ... + limb[5] / 2^60; its binary digits are numbered from 0, the last   *)
(* of limb[5], to 66, the first of limb[1].                                *)
(***************************************************************************)
PowersOfTwo ==
  << 1, 2, 4, 8, 16, 32, 64, 128, 256, 512, 1024, 2048, 4096, 8192, 16384, 32768 >>

Base == PowersOfTwo[16]

\* the whole number k < 128
FromWhole(k) == << k, 0, 0, 0, 0 >>

\* the limbs of s / m by long division, and whether it left a remainder
Quotient(s, m) ==
  LET r1 == s % m
      r2 == (r1 * Base) % m
      r3 == (r2 * Base) % m
      r4 == (r3 * Base) % m
      r5 == (r4 * Base) % m
  IN [ limbs |-> << s \div m, (r1 * Base) \div m, (r2 * Base) \div m,
                    (r3 * Base) \div m, (r4 * Base) \div m >>,
       inexact |-> r5 # 0 ]

\* x + y, exactly
AddLimbs(x, y) ==
  LET s5 == x[5] + y[5]
      s4 == x[4] + y[4] + (s5 \div Base)
      s3 == x[3] + y[3] + (s4 \div Base)
      s2 == x[2] + y[2] + (s3 \div Base)
      s1 == x[1] + y[1] + (s2 \div Base)
  IN << s1, s2 % Base, s3 % Base, s4 % Base, s5 % Base >>

\* x - y for x >= y, exactly
SubLimbs(x, y) ==
  LET d5 == x[5] - y[5]
      d4 == x[4] - y[4] - (IF d5 < 0 THEN 1 ELSE 0)
      d3 == x[3] - y[3] - (IF d4 < 0 THEN 1 ELSE 0)
      d2 == x[2] - y[2] - (IF d3 < 0 THEN 1 ELSE 0)
      d1 == x[1] - y[1] - (IF d2 < 0 THEN 1 ELSE 0)
  IN << d1, (d2 + Base) % Base, (d3 + Base) % Base, (d4 + Base) % Base,
        (d5 + Base) % Base >>

\* x < y
LessLimbs(x, y) ==
  \E j \in 1..5 : /\ x[j] < y[j]
                  /\ \A k \in 1..(j - 1) : x[k] = y[k]

\* the limb of binary digit p and the weight of the digit in its limb
LimbOf(p) == 5 - (p \div 15)

WeightOf(p) == PowersOfTwo[(p % 15) + 1]

DigitAt(x, p) == (x[LimbOf(p)] \div WeightOf(p)) % 2

\* rounding to 53 significant digits, to the nearest and on a tie to the even
RoundToDouble(x, inexact) ==
  IF x = << 0, 0, 0, 0, 0 >> THEN x
  ELSE LET lead == CHOOSE p \in 0..66 :
                     /\ DigitAt(x, p) = 1
                     /\ \A q \in (p + 1)..66 : DigitAt(x, q) = 0
           last == lead - 52
       IN IF last <= 0 THEN x
          ELSE LET tail == inexact \/ \E q \in 0..(last - 2) : DigitAt(x, q) = 1
                   up == DigitAt(x, last - 1) = 1 /\ (tail \/ DigitAt(x, last) = 1)
                   limb == LimbOf(last)
                   kept(j) == IF j < limb THEN x[j]
                              ELSE IF j = limb THEN x[j] - (x[j] % WeightOf(last))
                              ELSE 0
                   unit(j) == IF j = limb THEN WeightOf(last) ELSE 0
                   down == << kept(1), kept(2), kept(3), kept(4), kept(5) >>
               IN IF up
                    THEN AddLimbs(down, << unit(1), unit(2), unit(3), unit(4), unit(5) >>)
                    ELSE down

\* arr.reduce((sum, s) => sum + s.overallScore, 0) / arr.length for whole
\* scores: the sum is exact, the quotient is rounded
DoubleMean(sum, length) ==
  LET quotient == Quotient(sum \div 2, length)
  IN RoundToDouble(quotient.limbs, quotient.inexact)

\* the trend of the halves of completedInterviews, older half first
ImprovementTrend(interviews) ==
  IF Len(interviews) >= 4
    THEN LET midpoint == Len(interviews) \div 2
             older == Sum(OverallScores(SubSeq(interviews, 1, midpoint)))
             recent == Sum(OverallScores(SubSeq(interviews, midpoint + 1, Len(interviews))))
         IN IF older = NaN \/ recent = NaN THEN "stable"
            ELSE LET olderAvg == DoubleMean(older, midpoint)
                     recentAvg == DoubleMean(recent, Len(interviews) - midpoint)
                     five == FromWhole(5)
                 IN IF LessLimbs(RoundToDouble(AddLimbs(olderAvg, five), FALSE), recentAvg)
                      THEN "improving"
                    \* olderAvg - 5 is negative below 5, and no mean is
                    ELSE IF /\ ~LessLimbs(olderAvg, five)
                            /\ LessLimbs(recentAvg,
                                         RoundToDouble(SubLimbs(olderAvg, five), FALSE))
                      THEN "declining"
                    ELSE "stable"
    ELSE "stable"

\* the data of the response of getInterviewAnalytics
getInterviewAnalytics(collection, userId) ==
  LET completedInterviews == Find(collection, userId) IN
  IF Len(completedInterviews) = 0
    THEN [ totalInterviews |-> 0, averageScore |-> 0, strongestSkill |-> Null,
           lastFiveScores |-> << >>, improvementTrend |-> "stable" ]
    ELSE [ totalInterviews |-> Len(completedInterviews),
           averageScore |-> AverageScore(completedInterviews),
           strongestSkill |->
             ReduceSkill(completedInterviews, 1, [skill |-> Null, total |-> 0]).skill,
           lastFiveScores |-> LastFiveScores(completedInterviews),
           improvementTrend |-> ImprovementTrend(completedInterviews) ]

\* the controller has the result of its gateway call; what the call left
\* pending is followed in Spec and not here, where nothing reads it
Received ==
  /\ call.pc = "done"
  /\ call' = IdleCall
  /\ UNCHANGED << apiKey, openaiClient, clientsCreated, nCalls, abandonedProviders, abandonedTimers >>

\* startInterview from the result of generateQuestions to its response
StartResumes ==
  /\ request.stage = "awaiting"
  /\ request.endpoint = "start"
  /\ Received
  /\ IF call.outcome = "raised"
       THEN request' = Fail(request) /\ UNCHANGED sessions
       ELSE LET questionResult == call.result
                created == NewSession(request.user, call.role, call.difficulty,
                                      questionResult.questions)
                interviewSession ==
                  IF questionResult.model # Null
                    THEN [created EXCEPT !.aiUsage = Append(@, "question_generation")]
                    ELSE created
            IN /\ sessions' = Append(sessions, interviewSession)
               /\ request' = Respond([request EXCEPT
                                        !.sessionId = Len(sessions) + 1,
                                        !.data = [ sessionId |-> Len(sessions) + 1,
                                                   role |-> interviewSession.role,
                                                   difficulty |-> interviewSession.difficulty,
                                                   questions |-> interviewSession.questions,
                                                   createdAt |-> interviewSession.createdAt ]],
                                      201)
  /\ UNCHANGED << limiterVars, applied >>

\* submitInterview from the result of evaluateAnswers to its response
SubmitResumes ==
  /\ request.stage = "awaiting"
  /\ request.endpoint = "submit"
  /\ Received
  /\ IF call.outcome = "raised"
       THEN request' = Fail(request) /\ UNCHANGED sessions
       ELSE LET evaluation == call.result.evaluation
                interviewSession == sessions[request.sessionId]
            IN IF /\ HasPerQuestion(evaluation)
                  /\ Len(PerQuestion(evaluation)) # Len(interviewSession.questions)
                 THEN request' = Respond(request, 500) /\ UNCHANGED sessions
               ELSE IF HasPerQuestion(evaluation) /\ PerQuestion(evaluation) = << >>
                 THEN request' = Fail(request) /\ UNCHANGED sessions
               ELSE LET saved == Submitted(interviewSession, call.answers, call.result)
                    IN /\ sessions' = [sessions EXCEPT ![request.sessionId] = saved]
                       /\ request' = Respond([request EXCEPT
                                                !.data = [ sessionId |-> request.sessionId,
                                                           overallScore |-> saved.overallScore,
                                                           evaluation |-> saved.evaluation ]],
                                              200)
  /\ UNCHANGED << limiterVars, applied >>

\* router.get('/analytics', protect, getInterviewAnalytics): the request of an
\* authenticated user is answered from the sessions stored
AnalyticsRequest ==
  /\ request.stage # "awaiting"
  /\ \E user \in Users :
       request' = [NoHttpRequest EXCEPT !.seq = 1 - request.seq, !.stage = "responded",
                                        !.user = user, !.endpoint = "analytics",
                                        !.status = 200,
                                        !.data = getInterviewAnalytics(sessions, user)]
  /\ UNCHANGED << gatewayVars, limiterVars, sessions, applied >>

\* the provider settles, or the timer fires, while a controller awaits
HttpProviderSettles ==
  /\ ProviderSettlesWith(HttpProviderAnswers(call.kind), HttpDraws(call.kind))
  /\ UNCHANGED << limiterVars, httpVars, applied >>

HttpTimerFires ==
  /\ TimerFiresWith(HttpDraws(call.kind))
  /\ UNCHANGED << limiterVars, httpVars, applied >>

HttpInit ==
  /\ request = NoHttpRequest
  /\ sessions = << >>

(***************************************************************************)
(* The functions without state, applied to arguments of their own.         *)
(***************************************************************************)
NothingApplied == [fn |-> "none"]

\* the answer sets getFallbackEvaluation is applied to: those of the gateway
\* calls, no answers at all, one answer, and answers of white space only
AnswersNone == << >>

AnswersBlank == [i \in 1..5 |-> Blob(4, 0, 0)]

FallbackAnswerSets ==
  AnswerSets \cup {AnswersNone, AnswersBlank, << Blob(0, 60, 0) >>, << EmptyString, Blob(0, 149, 0) >>}

\* values of the three calls of Math.random(): the extremes and the middle in
\* every combination, and every value drawn three times
FallbackDraws == DrawTriples \cup {<< d, d, d >> : d \in RandomDraws}

\* getFallbackEvaluation(answers), its three calls of Math.random() giving draws
ApplyGetFallbackEvaluation ==
  /\ applied = NothingApplied
  /\ \E answers \in FallbackAnswerSets, draws \in FallbackDraws :
       applied' = [ fn |-> "getFallbackEvaluation", answers |-> answers,
                    draws |-> draws,
                    result |-> getFallbackEvaluation(answers, draws) ]
  /\ UNCHANGED << gatewayVars, limiterVars, httpVars >>

\* roles getFallbackQuestions is applied to: those of the gateway calls, one
\* with a keyword of both kinds, one with a keyword inside a word, and ""
TechnicalProductManager ==
  <<"T", "e", "c", "h", "n", "i", "c", "a", "l", " ",
    "P", "r", "o", "d", "u", "c", "t", " ", "M", "a", "n", "a", "g", "e", "r">>

DataAnalystEngineering ==
  <<"d", "a", "t", "a", " ", "A", "N", "A", "L", "Y", "S", "T", ",", " ",
    "e", "n", "g", "i", "n", "e", "e", "r", "i", "n", "g">>

Mismanagers == <<"m", "i", "s", "m", "a", "n", "a", "g", "e", "r", "s">>

FallbackRoles ==
  Roles \cup {TechnicalProductManager, DataAnalystEngineering, Mismanagers, << >>}

FallbackDifficulties == Difficulties \cup {Hard, Expert}

\* getFallbackQuestions(role, difficulty), called twice with the same arguments
ApplyGetFallbackQuestions ==
  /\ applied = NothingApplied
  /\ \E role \in FallbackRoles, difficulty \in FallbackDifficulties :
       applied' = [ fn |-> "getFallbackQuestions", role |-> role,
                    difficulty |-> difficulty,
                    result |-> getFallbackQuestions(role, difficulty),
                    again |-> getFallbackQuestions(role, difficulty) ]
  /\ UNCHANGED << gatewayVars, limiterVars, httpVars >>

\* a stored session as the query of getInterviewAnalytics selects it; skills
\* are the three scores of its evaluation, none for a session never submitted
StoredSession(userId, score, date, skills) ==
  [ userId |-> userId, overallScore |-> Num(score), createdAt |-> date,
    evaluation |->
      IF skills = << >> THEN NewEvaluation
      ELSE [ clarityScore |-> Num(skills[1]), correctnessScore |-> Num(skills[2]),
             communicationScore |-> Num(skills[3]) ] @@ NewEvaluation ]

\* sessions of u1 with these overall scores, created one after the other
ScoredHistory(scores) ==
  [i \in 1..Len(scores) |-> StoredSession("u1", scores[i], i, << scores[i], scores[i], scores[i] >>)]

\* the same sessions created two at a time, or all at one time
PairedDates(history) == [i \in 1..Len(history) |-> [history[i] EXCEPT !.createdAt = (i + 1) \div 2]]

OneDate(history) == [i \in 1..Len(history) |-> [history[i] EXCEPT !.createdAt = 1]]

\* sessions of u1 with these skill scores, created one after the other
SkilledHistory(skills) ==
  [i \in 1..Len(skills) |->
     StoredSession("u1",
                   IF skills[i] = << >> THEN 0
                   ELSE (2 * (skills[i][1] + skills[i][2] + skills[i][3]) + 3) \div 6,
                   i, skills[i])]

\* the order in which the store returns the sessions is not fixed by the query
Reversed(history) == [i \in 1..Len(history) |-> history[Len(history) + 1 - i]]

Rotated(history) ==
  IF history = << >> THEN << >> ELSE Tail(history) \o << Head(history) >>

StoreOrders(history) == {history, Reversed(history), Rotated(history)}

TrendScores ==
  { << >>, << 2, 3 >>, << 10, 10, 90 >>, << 50, 50, 50, 50, 90, 90, 90, 90 >>,
    << 50, 50, 55, 55 >>, << 50, 50, 55, 56 >>, << 55, 56, 50, 50 >>,
    << 40, 60, 60, 70, 61 >>, << 90, 80, 70, 60, 50, 40 >>,
    << 2, 3, 3, 7, 8, 8 >>, << 20, 21, 21, 15, 16, 16 >> }

SkillSamples ==
  { << << 70, 80, 60 >> >>, << << 80, 80, 60 >> >>, << << 60, 80, 80 >> >>,
    << << 0, 0, 0 >> >>, << << 90, 10, 10 >>, << 10, 60, 100 >> >>,
    << << >> >>, << << >>, << >> >>, << << >>, << 50, 60, 70 >> >> }

\* a session of another user in front of each collection
OfAnother == StoredSession("u2", 100, 0, << 0, 0, 100 >>)

Collections ==
  LET trend == UNION {StoreOrders(ScoredHistory(scores)) : scores \in TrendScores}
      dated == UNION {StoreOrders(PairedDates(ScoredHistory(scores))) \cup
                        StoreOrders(OneDate(ScoredHistory(scores))) : scores \in TrendScores}
      skilled == {SkilledHistory(skills) : skills \in SkillSamples}
      all == trend \cup dated \cup skilled
  IN all \cup {<< OfAnother >> \o collection : collection \in skilled}

\* getInterviewAnalytics for u1 over a collection, called twice
ApplyGetInterviewAnalytics ==
  /\ applied = NothingApplied
  /\ \E collection \in Collections :
       applied' = [ fn |-> "getInterviewAnalytics", userId |-> "u1",
                    collection |-> collection,
                    result |-> getInterviewAnalytics(collection, "u1"),
                    again |-> getInterviewAnalytics(collection, "u1") ]
  /\ UNCHANGED << gatewayVars, limiterVars, httpVars >>

PureInit == applied = NothingApplied

GatewayInit ==
  /\ apiKey \in BOOLEAN
  /\ openaiClient = NoClient
  /\ clientsCreated = 0
  /\ call = IdleCall
  /\ nCalls = 0
  /\ abandonedProviders = 0
  /\ abandonedTimers = 0

Init == GatewayInit /\ LimiterInit /\ HttpInit /\ PureInit

Next ==
  \/ InvokeGenerateQuestions
  \/ InvokeEvaluateAnswers
  \/ ProviderSettles
  \/ TimerFires
  \/ CallerContinues
  \/ AbandonedProviderSettles
  \/ AbandonedTimerFires
  \/ KeyConfigured

Spec == Init /\ [][Next]_vars

LimiterOnlyInit == Init /\ apiKey

LimiterNext ==
  \/ LimiterHandlesRequest
  \/ CleanupRuns
  \/ Tick

\* an authenticated user sends a request to an AI route, while the clock has
\* more than CleanupWindowMs left to run: every user stops sending in the end
UserSends ==
  /\ now + CleanupWindowMs + TickMs <= SweepTicks * TickMs
  /\ \E user \in Users : Limit(user, "start")
  /\ UNCHANGED << gatewayVars, httpVars, applied >>

\* time passes
SweepTick ==
  /\ now < SweepTicks * TickMs
  /\ now' = now + TickMs
  /\ admissions' = [u \in Users |-> Younger(admissions[u], now' - DefaultWindowMs)]
  /\ UNCHANGED << userRequestTimestamps, swept, lastRequest >>
  /\ UNCHANGED << gatewayVars, httpVars, applied >>

SweepNext ==
  \/ UserSends
  \/ CleanupRuns
  \/ SweepTick

\* the rate limiter under users who stop sending: setInterval keeps running the
\* cleanup for as long as the process lives, and the clock keeps advancing
SpecSweep ==
  LimiterOnlyInit /\ [][SweepNext]_vars /\ WF_vars(CleanupRuns) /\ WF_vars(SweepTick)

\* one call of each gateway function
LiveInvokeGenerateQuestions ==
  /\ Invoke("questions", WebDeveloper, hard, << >>, << >>, << 0, 0, 0 >>)
  /\ UNCHANGED << limiterVars, httpVars, applied >>

LiveInvokeEvaluateAnswers ==
  /\ Invoke("evaluation", Nurse, easy, ProviderQuestions, AnswersMixed, << 0, 7, 14 >>)
  /\ UNCHANGED << limiterVars, httpVars, applied >>

LiveNext ==
  \/ LiveInvokeGenerateQuestions
  \/ LiveInvokeEvaluateAnswers
  \/ HttpProviderSettles
  \/ HttpTimerFires
  \/ CallerContinues
  \/ AbandonedProviderSettles
  \/ AbandonedTimerFires
  \/ KeyConfigured

\* the gateway under a provider that may never answer, with the event loop
\* running every timer that is due
SpecLive == Init /\ [][LiveNext]_vars /\ WF_vars(HttpTimerFires)

PureNext ==
  \/ ApplyGetFallbackEvaluation
  \/ ApplyGetFallbackQuestions
  \/ ApplyGetInterviewAnalytics

\* the functions of the fallback engine and of the analytics, each behaviour
\* applying one of them to one choice of arguments
SpecPure == Init /\ [][PureNext]_vars

\* the rate limiter alone, under requests of two users and of callers without
\* an identity
SpecLimiter == LimiterOnlyInit /\ [][LimiterNext]_vars

HttpNext ==
  \/ StartRequest
  \/ SubmitRequest
  \/ HttpProviderSettles
  \/ HttpTimerFires
  \/ StartResumes
  \/ SubmitResumes
  \/ AnalyticsRequest

\* the two AI routes and the analytics route under requests of two users
SpecHttp == Init /\ [][HttpNext]_vars

(***************************************************************************)
(* Shapes the results are checked against.                                 *)
(***************************************************************************)
\* exactly 5 entries, each a string with a character that is not white space
ValidQuestionSet(qs) ==
  /\ Len(qs) = 5
  /\ \A i \in 1..Len(qs) : qs[i].t = "string" /\ qs[i].n > 0

\* a whole number in [0, 100]
WholeScore(x) == x # NaN /\ x % 2 = 0 /\ x >= Num(0) /\ x <= Num(100)

NonEmptyStrings(items) ==
  /\ Len(items) > 0
  /\ \A i \in 1..Len(items) : items[i].t = "string"

ValidEvaluation(e) ==
  /\ WholeScore(e.clarityScore)
  /\ WholeScore(e.correctnessScore)
  /\ WholeScore(e.communicationScore)
  /\ NonEmptyStrings(e.strengths)
  /\ NonEmptyStrings(e.areasForImprovement)
  /\ e.overallFeedback.t = "string" /\ Length(e.overallFeedback) > 0

Done == call.pc = "done"

\* the result in hand is a result object, not a thrown error
Returned == Done /\ call.outcome = "returned"

FallbackEvaluations(answers) ==
  { getFallbackEvaluation(answers, draws) : draws \in DrawTriples }

(***************************************************************************)
(* C1.  Whatever the provider does (answers in time, rejects, is beaten by *)
(* the timer, answers without content or with a payload that cannot be     *)
(* parsed or is invalid), generateQuestions and evaluateAnswers end by     *)
(* returning a result object: no call ever ends by raising, and a call     *)
(* that left the provider path for any reason returns a fallback result.   *)
(***************************************************************************)
C1_NeverRaises ==
  /\ call.outcome # "raised"
  /\ Done => /\ call.outcome = "returned"
             /\ "usedFallback" \in DOMAIN call.result
             /\ (call.cause # "none" => call.result.usedFallback)

C1_Witness ==
  /\ Returned
  /\ call.kind = "evaluation"
  /\ call.cause = "provider_error"
  /\ call.result.usedFallback

(***************************************************************************)
(* C2.  When the timer fires while the provider call has not settled, the  *)
(* call returns usedFallback = true, no model identifier, and a payload of *)
(* the right shape: exactly 5 non-empty questions, or a valid evaluation.  *)
(***************************************************************************)
C2_TimeoutGivesFallback ==
  (Done /\ call.by = "timer") =>
    /\ call.outcome = "returned"
    /\ call.result.usedFallback = TRUE
    /\ call.result.model = Null
    /\ (call.kind = "questions" => ValidQuestionSet(call.result.questions))
    /\ (call.kind = "evaluation" => ValidEvaluation(call.result.evaluation))

C2_Witness ==
  /\ Done
  /\ call.by = "timer"
  /\ call.provider = "pending"
  /\ call.timer = "fired"
  /\ call.kind = "questions"
  /\ call.result.usedFallback

(***************************************************************************)
(* C3.  In every returned result usedFallback is false exactly when a      *)
(* model identifier is present; that happens only when the provider        *)
(* settled the race and its payload passed validation.  After a timeout, a *)
(* provider error or a validation failure the result has usedFallback =    *)
(* true, no model identifier, and the payload the fallback engine gives    *)
(* for the inputs of the call.                                             *)
(***************************************************************************)
C3_FallbackFlagMatchesPath ==
  Returned =>
    /\ (call.result.usedFallback = FALSE) <=> (call.result.model # Null)
    /\ (call.result.usedFallback = FALSE) =>
         /\ call.by = "provider"
         /\ call.provider = "settled"
         /\ call.cause = "none"
    /\ (call.cause \in {"timeout", "provider_error", "validation"}) =>
         /\ call.result.usedFallback = TRUE
         /\ call.result.model = Null
         /\ (call.kind = "questions" =>
               call.result.questions = getFallbackQuestions(call.role, call.difficulty))
         /\ (call.kind = "evaluation" =>
               call.result.evaluation \in FallbackEvaluations(call.answers))

C3_Witness ==
  /\ Returned
  /\ call.kind = "evaluation"
  /\ call.by = "provider"
  /\ call.cause = "validation"
  /\ call.result.usedFallback
  /\ call.result.model = Null

(***************************************************************************)
(* C4.  Every question set generateQuestions returns, from the provider or *)
(* from the fallback table, has exactly 5 entries, each a string that is   *)
(* not empty after trimming.                                               *)
(***************************************************************************)
C4_FiveNonEmptyQuestions ==
  (Returned /\ call.kind = "questions") => ValidQuestionSet(call.result.questions)

\* a provider-path result holding a question with white space around it
C4_Witness ==
  /\ Returned
  /\ call.kind = "questions"
  /\ call.result.usedFallback = FALSE
  /\ \E i \in 1..Len(call.result.questions) : call.result.questions[i].lead > 0

(***************************************************************************)
(* C5.  Every evaluation evaluateAnswers returns, from the provider or     *)
(* from the fallback engine, has three scores that are whole numbers in    *)
(* [0, 100], a non-empty strengths list, a non-empty areasForImprovement   *)
(* list and a non-empty overallFeedback string.                            *)
(***************************************************************************)
C5_EvaluationWellFormed ==
  (Returned /\ call.kind = "evaluation") => ValidEvaluation(call.result.evaluation)

\* a provider-path result whose scores were rounded
C5_Witness ==
  /\ Returned
  /\ call.kind = "evaluation"
  /\ call.result.usedFallback = FALSE
  /\ call.result.evaluation.clarityScore = Num(86)
  /\ call.result.evaluation.correctnessScore = Num(1)

(***************************************************************************)
(* C6.  A request of an authenticated user is admitted exactly when fewer  *)
(* than 5 of that user's admissions lie in the trailing 60 s, the          *)
(* 60000 ms that end with the request, (now - 60000, now]; a request       *)
(* that finds 5 is answered 429; and no such 60000 ms hold more than 5     *)
(* admissions of one user.                                                 *)
(***************************************************************************)
C6_AdmittedWithinBudget ==
  /\ \A u \in Users : Len(admissions[u]) <= 5
  /\ lastRequest.user \in Users =>
       /\ lastRequest.next <=> lastRequest.trailing < 5
       /\ lastRequest.next <=> lastRequest.status # 429

\* a sixth request is rejected after five admissions spread over more than one
\* instant, the oldest of which has since left the window of an earlier time
C6_Witness ==
  /\ lastRequest.user = "u1"
  /\ lastRequest.status = 429
  /\ lastRequest.trailing = 5
  /\ now >= DefaultWindowMs
  /\ Len(admissions["u1"]) = 5
  /\ admissions["u1"][1] < admissions["u1"][5]

(***************************************************************************)
(* C7.  A request the middleware rejects leaves the store as it was: the   *)
(* stored timestamps of the sender and of every other user are the same    *)
(* before and after it.                                                    *)
(***************************************************************************)
C7_RejectionLeavesStore ==
  [][ (lastRequest'.seq # lastRequest.seq /\ lastRequest'.status = 429)
        => userRequestTimestamps' = userRequestTimestamps ]_vars

C7_Witness ==
  /\ lastRequest.user = "u2"
  /\ lastRequest.status = 429
  /\ Len(StoreGet(userRequestTimestamps, "u2")) = 5
  /\ StoreGet(userRequestTimestamps, "u1") # << >>

(***************************************************************************)
(* C8.  A request the rate limiter rejects is answered 429 and goes no     *)
(* further: the step that handles it issues no gateway call (no provider   *)
(* request, no fallback result) and creates or changes no session, and     *)
(* 429 is the answer of no request the limiter let through.                *)
(***************************************************************************)
C8_RejectedNeverReachesGateway ==
  [][ /\ (lastRequest'.seq # lastRequest.seq /\ lastRequest'.status = 429) =>
           /\ request'.status = 429
           /\ request'.stage = "responded"
           /\ ~request'.gateway
           /\ UNCHANGED << gatewayVars, sessions >>
      /\ request'.status = 429 =>
           /\ request'.seq # request.seq
           /\ lastRequest'.status = 429 ]_vars

\* a submit for the sender's own session is rejected, and the session is as
\* startInterview created it
C8_Witness ==
  /\ request.stage = "responded"
  /\ request.status = 429
  /\ request.endpoint = "submit"
  /\ FindOne(request.sessionId, request.user)
  /\ sessions[request.sessionId].answers = << >>
  /\ call = IdleCall

(***************************************************************************)
(* C9.  With OPENAI_API_KEY absent a gateway call does not degrade to a    *)
(* fallback result: the configuration error reaches the caller as a        *)
(* failure of its own.                                                     *)
(***************************************************************************)
C9_ConfigErrorSurfaces ==
  (Done /\ call.cause = "config") =>
    /\ call.outcome = "raised"
    /\ ~("usedFallback" \in DOMAIN call.result /\ call.result.usedFallback)

(***************************************************************************)
(* C10.  A provider evaluation whose only defect is a score outside        *)
(* [0, 100] is not rejected: it is returned on the provider path           *)
(* (usedFallback = false) with whole scores in [0, 100].                   *)
(***************************************************************************)
C10_OutOfRangeIsClamped ==
  (Returned /\ call.kind = "evaluation" /\ call.by = "provider" /\ call.defect = "range") =>
    /\ call.result.usedFallback = FALSE
    /\ ValidEvaluation(call.result.evaluation)
    /\ "perQuestionEvaluations" \in DOMAIN call.result.evaluation

(***************************************************************************)
(* C11.  When the provider answers a submit in time with an evaluation     *)
(* whose per-question array is not as long as the list of questions, the   *)
(* request ends in an error response and the session is left as it was:    *)
(* the answers are not rescored by the fallback engine and saved.          *)
(***************************************************************************)
C11_CountMismatchIsHardFailure ==
  [][ ( /\ request.stage = "awaiting"
        /\ request.endpoint = "submit"
        /\ call.pc = "done"
        /\ call.by = "provider"
        /\ call.defect = "count"
        /\ request'.stage # "awaiting" )
      => ( /\ request'.status # 200
           /\ sessions' = sessions ) ]_vars

\* the per-question arrays of the payloads the provider may answer with
PayloadItems ==
  { Get(ParseCompletion(a.res.val).val, "perQuestionEvaluations").arr :
      a \in { b \in EvaluationAnswers :
                /\ b.res.ok
                /\ ParseCompletion(b.res.val).ok
                /\ ~ReadThrows(ParseCompletion(b.res.val).val)
                /\ Get(ParseCompletion(b.res.val).val, "perQuestionEvaluations").t = "array"
                /\ ValidatePerQuestion(
                     Get(ParseCompletion(b.res.val).val, "perQuestionEvaluations").arr, 1).ok } }

(***************************************************************************)
(* C12.  The per-question list of an evaluation evaluateAnswers returns    *)
(* for n questions and n answers, when there is one, has n entries, the    *)
(* i-th of them made from the i-th entry of the provider's payload; and a  *)
(* payload whose per-question array has another length comes back as a     *)
(* fallback result, never as a result of the provider path.                *)
(***************************************************************************)
C12_PerQuestionAligned ==
  (Returned /\ call.kind = "evaluation") =>
    LET evaluation == call.result.evaluation IN
    /\ HasPerQuestion(evaluation) =>
         /\ Len(call.answers) = Len(call.questions)
         /\ Len(evaluation.perQuestionEvaluations) = Len(call.questions)
         /\ \E items \in PayloadItems :
              /\ Len(items) = Len(call.questions)
              /\ \A i \in 1..Len(items) :
                   evaluation.perQuestionEvaluations[i] = NormalizePerQuestion(items[i])
    /\ call.defect = "count" =>
         /\ call.result.usedFallback
         /\ ~HasPerQuestion(evaluation)

C12_Witness ==
  /\ Returned
  /\ call.kind = "evaluation"
  /\ HasPerQuestion(call.result.evaluation)
  /\ call.result.evaluation.perQuestionEvaluations[3].correctnessScore = Num(10)
  /\ call.result.evaluation.perQuestionEvaluations[5].feedback = Txt("Excellent again.")

(***************************************************************************)
(* C13.  Once the timer has won the race of a call, the provider's answer  *)
(* to that call, whenever it arrives, changes nothing: the call keeps the  *)
(* result it has, gets no second one, and when the answer arrives after    *)
(* the caller has gone on, whatever call is then under way is untouched.   *)
(***************************************************************************)
C13_LateAnswerDiscarded ==
  [][ /\ (call.pc = "done" /\ call'.pc = "done") =>
           /\ call'.result = call.result
           /\ call'.outcome = call.outcome
           /\ call'.by = call.by
      /\ (call.pc = "done" /\ call.provider = "pending" /\ call'.provider = "settled") =>
           /\ call' = [call EXCEPT !.provider = "settled"]
           /\ nCalls' = nCalls
      /\ abandonedProviders' < abandonedProviders => call' = call ]_vars

\* the provider has answered a call the timer had already decided
C13_Witness ==
  /\ call.pc = "done"
  /\ call.by = "timer"
  /\ call.provider = "settled"
  /\ call.result.usedFallback

(***************************************************************************)
(* C14.  A gateway call issues at most one provider request: none when the *)
(* client cannot be had, one otherwise, and after a provider error, a      *)
(* timeout or a validation failure it returns the fallback result with     *)
(* that one request made.                                                  *)
(***************************************************************************)
C14_OneProviderRequest ==
  /\ call.requests <= 1
  /\ call.pc = "racing" => call.requests = 1
  /\ Done =>
       /\ call.requests = (IF call.cause = "config" THEN 0 ELSE 1)
       /\ call.cause # "none" => call.result.usedFallback

C14_Witness ==
  /\ Done
  /\ call.cause = "validation"
  /\ call.requests = 1
  /\ call.result.usedFallback

(***************************************************************************)
(* C15.  Every gateway call returns, even when the provider never answers: *)
(* the race is given a timer of 9000 ms, a call is over no later than the  *)
(* firing of that timer, a call whose provider settles first is over then, *)
(* with its timer still armed, and every call under way comes to its end.  *)
(***************************************************************************)
C15_CallAlwaysCompletes ==
  /\ [](createTimeout(OPENAI_TIMEOUT_MS).ms = 9000)
  /\ [](call.timer = "fired" => call.pc = "done")
  /\ [](call.provider = "settled" => call.pc = "done")
  /\ (call.pc = "racing") ~> (call.pc = "done" /\ call.outcome = "returned")

\* the call is over by its timer and the provider has still not answered
C15_Witness ==
  /\ call.pc = "done"
  /\ call.cause = "timeout"
  /\ call.timer = "fired"
  /\ call.provider = "pending"
  /\ call.outcome = "returned"

\* a number within [0, 100]
InRange(x) == x # NaN /\ Num(0) <= x /\ x <= Num(100)

(***************************************************************************)
(* C16.  For every answer set, the empty one and those with empty or blank *)
(* answers included, getFallbackEvaluation returns three scores that are   *)
(* numbers in [0, 100], a non-empty list of strengths and a non-empty list *)
(* of areas for improvement, and the rounded mean of the three scores is a *)
(* number in [0, 100].                                                     *)
(***************************************************************************)
C16_FallbackEvaluationTotal ==
  applied.fn = "getFallbackEvaluation" =>
    LET e == applied.result IN
    /\ InRange(e.clarityScore)
    /\ InRange(e.correctnessScore)
    /\ InRange(e.communicationScore)
    /\ e.strengths # << >>
    /\ e.areasForImprovement # << >>
    /\ InRange(RoundedMean3(e.clarityScore, e.correctnessScore, e.communicationScore))

\* the lower-cased role contains one of the keywords
HasKeyword(role, keywords) == \E k \in keywords : includes(toLowerCase(role), k)

(***************************************************************************)
(* C17.  For every role and every difficulty among easy, medium and hard,  *)
(* getFallbackQuestions returns exactly five non-empty strings of the      *)
(* table entry for that difficulty and the category of the role: technical *)
(* if the lower-cased role contains a technical keyword, otherwise         *)
(* business if it contains a business keyword, otherwise general.  Two     *)
(* calls with the same arguments return the same list.                     *)
(***************************************************************************)
C17_FiveQuestionsOfTheCategory ==
  (applied.fn = "getFallbackQuestions" /\ applied.difficulty \in Difficulties) =>
    LET category == IF HasKeyword(applied.role, TechnicalKeywords) THEN "technical"
                    ELSE IF HasKeyword(applied.role, BusinessKeywords) THEN "business"
                    ELSE "general"
        entry == fallbackQuestions(applied.difficulty, category)
    IN /\ Len(applied.result) = 5
       /\ \A i \in 1..5 : /\ applied.result[i].t = "string"
                          /\ Length(applied.result[i]) > 0
                          /\ \E j \in 1..Len(entry) : applied.result[i] = entry[j]
       /\ applied.again = applied.result

C17_Witness ==
  /\ applied.fn = "getFallbackQuestions"
  /\ applied.role = TechnicalProductManager
  /\ applied.difficulty = medium
  /\ applied.result = Q_medium_technical

(***************************************************************************)
(* C18.  However the cleanup is interleaved with the requests, it removes  *)
(* no timestamp that is less than 60000 ms old and loses no timestamp an   *)
(* admission appended: for every user the timestamps of the store that are *)
(* inside the window are exactly the admissions of the last 60000 ms, and  *)
(* every request is admitted or rejected as it would be had the cleanup    *)
(* never run, that is by the number of those admissions.                   *)
(***************************************************************************)
C18_CleanupChangesNoDecision ==
  /\ \A u \in Users :
       Younger(StoreGet(userRequestTimestamps, u), now - DefaultWindowMs) = admissions[u]
  /\ \A u \in Users :
       aiRateLimiter(DefaultMaxRequests, DefaultWindowMs, userRequestTimestamps, u, now).next
         <=> Len(admissions[u]) < DefaultMaxRequests
  /\ (lastRequest.user \in Users /\ lastRequest.user \in swept) =>
       (lastRequest.next <=> lastRequest.trailing < DefaultMaxRequests)

\* the cleanup removed the oldest timestamp of u1 and kept the younger one,
\* and the next request of u1 was admitted next to it
C18_Witness ==
  /\ "u1" \in swept
  /\ lastRequest.user = "u1"
  /\ lastRequest.next
  /\ lastRequest.trailing = 1
  /\ StoreGet(userRequestTimestamps, "u1") = << TickMs, 2 * TickMs >>

(***************************************************************************)
(* C19.  A request without an authenticated user is always admitted by the *)
(* rate limiter, whatever requests came before it, and the step that       *)
(* handles it creates no rate window and changes none.                     *)
(***************************************************************************)
C19_AnonymousAlwaysAdmitted ==
  [][ (lastRequest'.seq # lastRequest.seq /\ lastRequest'.user = Anonymous)
        => /\ lastRequest'.next
           /\ lastRequest'.status # 429
           /\ userRequestTimestamps' = userRequestTimestamps
           /\ Anonymous \notin DOMAIN userRequestTimestamps' ]_vars

\* a request without a user is admitted while the windows of both users are
\* full, and the store holds no key but theirs
C19_Witness ==
  /\ lastRequest.user = Anonymous
  /\ lastRequest.endpoint = "submit"
  /\ lastRequest.next
  /\ \A u \in Users : Len(StoreGet(userRequestTimestamps, u)) = DefaultMaxRequests
  /\ DOMAIN userRequestTimestamps = Users

\* the user has a session that was evaluated: submitInterview saved its scores
HasEvaluatedSession(user) ==
  \E i \in 1..Len(sessions) : /\ sessions[i].userId = user
                              /\ "clarityScore" \in DOMAIN sessions[i].evaluation

(***************************************************************************)
(* C20.  The analytics of a user none of whose sessions was evaluated are  *)
(* totalInterviews = 0, averageScore = 0, no strongestSkill, no entry in   *)
(* lastFiveScores and the trend 'stable'.                                  *)
(***************************************************************************)
C20_NoEvaluatedSessionsEmptySummary ==
  ( /\ request.endpoint = "analytics"
    /\ request.stage = "responded"
    /\ ~HasEvaluatedSession(request.user) )
  => /\ request.data.totalInterviews = 0
     /\ request.data.averageScore = 0
     /\ request.data.strongestSkill = Null
     /\ request.data.lastFiveScores = << >>
     /\ request.data.improvementTrend = "stable"

\* the sessions getInterviewAnalytics was applied to: those of the user
History == SelectSeq(applied.collection, LAMBDA session : session.userId = applied.userId)

\* the sessions among them that carry an evaluation
CarriesEvaluation(session) == "clarityScore" \in DOMAIN session.evaluation

Evaluated == SelectSeq(History, CarriesEvaluation)

\* the sum of one sub-score over the sessions that carry an evaluation; the
\* means have one divisor, so they compare as the sums do
SubScoreSum(score) == Sum([i \in 1..Len(Evaluated) |-> Evaluated[i].evaluation[score]])

(***************************************************************************)
(* C21.  strongestSkill is the skill with the highest mean sub-score over  *)
(* the sessions that carry an evaluation, the earliest of clarity,         *)
(* correctness, communication on a tie; when the user has sessions and     *)
(* none of them carries an evaluation, strongestSkill is absent.           *)
(***************************************************************************)
C21_StrongestSkill ==
  (applied.fn = "getInterviewAnalytics" /\ History # << >>) =>
    IF Evaluated = << >> THEN applied.result.strongestSkill = Null
    ELSE \E i \in 1..3 :
           /\ applied.result.strongestSkill = Skills[i].skill
           /\ \A j \in 1..3 : SubScoreSum(Skills[j].score) <= SubScoreSum(Skills[i].score)
           /\ \A j \in 1..(i - 1) : SubScoreSum(Skills[j].score) < SubScoreSum(Skills[i].score)

\* the sum of the overall scores of sessions first..last of the history
ScoreSum(first, last) == Sum(OverallScores(SubSeq(History, first, last)))

\* the trend of the history with the means of its halves compared exactly:
\* mean(newer) > mean(older) + 5 multiplied by the two lengths
TrendOfHalves ==
  LET n == Len(History)
      olderN == n \div 2
      newerN == n - olderN
      older == ScoreSum(1, olderN)
      newer == ScoreSum(olderN + 1, n)
  IN IF n < 4 THEN "stable"
     ELSE IF newer * olderN > older * newerN + Num(5) * olderN * newerN THEN "improving"
     ELSE IF newer * olderN < older * newerN - Num(5) * olderN * newerN THEN "declining"
     ELSE "stable"

(***************************************************************************)
(* C22.  The trend of a history of n sessions is 'stable' if n < 4.  For   *)
(* n >= 4 the first floor(n / 2) sessions are the older half and the rest  *)
(* the newer half, and the trend is 'improving' if mean(newer) >           *)
(* mean(older) + 5, 'declining' if mean(newer) < mean(older) - 5 and       *)
(* 'stable' otherwise, a difference of exactly 5 included.  The scores     *)
(* 50, 50, 50, 50, 90, 90, 90, 90 give 'improving'.                        *)
(***************************************************************************)
C22_TrendOfHalves ==
  applied.fn = "getInterviewAnalytics" =>
    /\ applied.result.improvementTrend = TrendOfHalves
    /\ OverallScores(History) = << Num(50), Num(50), Num(50), Num(50),
                                   Num(90), Num(90), Num(90), Num(90) >>
         => applied.result.improvementTrend = "improving"

\* no two sessions of the history were created at one time
DistinctDates ==
  \A i, j \in 1..Len(History) : i # j => History[i].createdAt # History[j].createdAt

\* the history with the earliest session first
Chronological ==
  LET position(i) == 1 + Cardinality({j \in 1..Len(History) :
                                        History[j].createdAt < History[i].createdAt})
  IN [p \in 1..Len(History) |->
        History[CHOOSE i \in 1..Len(History) : position(i) = p]]

(***************************************************************************)
(* C23.  The halves of the trend are chronological: in whatever order the  *)
(* store returns the sessions, the older half is the floor(n / 2) sessions *)
(* created first and the newer half the sessions created after them, so    *)
(* the trend is the trend of the history in the order of creation.         *)
(***************************************************************************)
C23_TrendIsChronological ==
  (applied.fn = "getInterviewAnalytics" /\ DistinctDates) =>
    applied.result.improvementTrend = ImprovementTrend(Chronological)

\* the place of session i of the history among the sessions sorted newest
\* first, sessions of one date in their order in the history
PlaceByDate(i) ==
  1 + Cardinality({j \in 1..Len(History) : History[j].createdAt > History[i].createdAt})
    + Cardinality({j \in 1..(i - 1) : History[j].createdAt = History[i].createdAt})

(***************************************************************************)
(* C24.  lastFiveScores has min(n, 5) entries: the {score, date} pairs of  *)
(* the sessions created last, newest first, sessions created at one time   *)
(* in the order they had in the input; a second call on the same input     *)
(* gives the same list.                                                    *)
(***************************************************************************)
C24_LastFiveNewestFirst ==
  applied.fn = "getInterviewAnalytics" =>
    LET lastFive == applied.result.lastFiveScores
        n == Len(History)
    IN /\ Len(lastFive) = IF n < 5 THEN n ELSE 5
       /\ \A i \in 1..n :
            PlaceByDate(i) <= 5 =>
              lastFive[PlaceByDate(i)] = [ score |-> History[i].overallScore,
                                           date |-> History[i].createdAt ]
       /\ applied.again.lastFiveScores = lastFive

\* six sessions created two at a time: the two of the last date lead in their
\* input order, and the oldest but one is left out
C24_Witness ==
  /\ applied.fn = "getInterviewAnalytics"
  /\ Len(History) = 6
  /\ applied.result.lastFiveScores =
       << [score |-> Num(50), date |-> 3], [score |-> Num(40), date |-> 3],
          [score |-> Num(70), date |-> 2], [score |-> Num(60), date |-> 2],
          [score |-> Num(90), date |-> 1] >>

(***************************************************************************)
(* C25.  A fallback result tells nothing of the failure behind it.  When   *)
(* startInterview resumes from a call of generateQuestions that left the   *)
(* provider path, be it by the timer, by a rejection of the provider or by *)
(* a payload that failed validation, the result of the call is the         *)
(* fallback questions of the role and difficulty, the flag and no model,   *)
(* and nothing else; the response is 201 and holds those questions and the *)
(* fields of the session, and no text of an error.  In the same way the    *)
(* result of evaluateAnswers and the response of submitInterview hold the  *)
(* fallback evaluation of the answers and nothing of the error.            *)
(***************************************************************************)
C25_FallbackTellsNoCause ==
  [][ /\ ( /\ request.stage = "awaiting"
           /\ request.endpoint = "start"
           /\ request'.stage # "awaiting"
           /\ call.cause # "none" )
         => LET fallback == getFallbackQuestions(call.role, call.difficulty) IN
            /\ call.result = [questions |-> fallback, usedFallback |-> TRUE, model |-> Null]
            /\ request'.stage = "responded"
            /\ request'.status = 201
            /\ request'.data = [ sessionId |-> Len(sessions'), role |-> call.role,
                                 difficulty |-> call.difficulty, questions |-> fallback,
                                 createdAt |-> now ]
      /\ ( /\ request.stage = "awaiting"
           /\ request.endpoint = "submit"
           /\ request'.stage # "awaiting"
           /\ call.cause # "none" )
         => \E draws \in HttpDraws("evaluation") :
              LET fallback == getFallbackEvaluation(call.answers, draws) IN
              /\ call.result = [evaluation |-> fallback, usedFallback |-> TRUE, model |-> Null]
              /\ request'.stage = "responded"
              /\ request'.status = 200
              /\ request'.data.evaluation = fallback ]_vars

\* a start answered with the fallback questions although the key is set: the
\* timer, a provider error or an invalid payload was behind it
C25_Witness ==
  /\ apiKey
  /\ request.endpoint = "start"
  /\ request.stage = "responded"
  /\ request.status = 201
  /\ sessions[request.sessionId].aiUsage = << >>
  /\ request.data.questions = getFallbackQuestions(WebDeveloper, hard)

\* three times the mean of the scores of one per-question entry
ThriceMean(item) == item.clarityScore + item.correctnessScore + item.communicationScore

(***************************************************************************)
(* C26.  When a submit succeeds, the overallScore stored is                *)
(* round((clarity + correctness + communication) / 3) of the evaluation    *)
(* returned, and when the evaluation has per-question detail the strongest *)
(* question index is the first index whose three scores have the greatest  *)
(* mean and the weakest question index the first index with the least.     *)
(***************************************************************************)
C26_OverallScoreAndIndices ==
  [][ ( /\ request.stage = "awaiting"
        /\ request.endpoint = "submit"
        /\ request'.stage = "responded"
        /\ request'.status = 200 )
      => LET evaluation == call.result.evaluation
             saved == sessions'[request.sessionId]
             thrice == evaluation.clarityScore + evaluation.correctnessScore
                         + evaluation.communicationScore
             items == PerQuestion(evaluation)
             strongest == saved.strongestQuestionIndex + 1
             weakest == saved.weakestQuestionIndex + 1
         IN /\ saved.evaluation = evaluation
            /\ IsInteger(saved.overallScore)
            /\ 3 * saved.overallScore - 3 <= thrice
            /\ thrice < 3 * saved.overallScore + 3
            /\ request'.data.overallScore = saved.overallScore
            /\ HasPerQuestion(evaluation) =>
                 /\ strongest \in 1..Len(items)
                 /\ \A j \in 1..Len(items) : ThriceMean(items[j]) <= ThriceMean(items[strongest])
                 /\ \A j \in 1..(strongest - 1) :
                      ThriceMean(items[j]) < ThriceMean(items[strongest])
                 /\ weakest \in 1..Len(items)
                 /\ \A j \in 1..Len(items) : ThriceMean(items[j]) >= ThriceMean(items[weakest])
                 /\ \A j \in 1..(weakest - 1) :
                      ThriceMean(items[j]) > ThriceMean(items[weakest]) ]_vars

\* the second and the fifth question share the greatest mean: the second is
\* the strongest; 85, 90 and 78 give the overall score 84
C26_Witness ==
  /\ request.endpoint = "submit"
  /\ request.stage = "responded"
  /\ request.status = 200
  /\ sessions[request.sessionId].overallScore = Num(84)
  /\ sessions[request.sessionId].strongestQuestionIndex = 1
  /\ sessions[request.sessionId].weakestQuestionIndex = 2
  /\ ThriceMean(sessions[request.sessionId].evaluation.perQuestionEvaluations[5])
       = ThriceMean(sessions[request.sessionId].evaluation.perQuestionEvaluations[2])

(***************************************************************************)
(* C27.  Called with a difficulty that is none of easy, medium and hard,   *)
(* getFallbackQuestions takes the questions from the row 'easy' of the     *)
(* table, in the category of the role: the easy technical questions for a  *)
(* technical role, the easy business questions for a business role.        *)
(***************************************************************************)
C27_UnknownDifficultyUsesEasyRow ==
  ( /\ applied.fn = "getFallbackQuestions"
    /\ toLowerCase(applied.difficulty) \notin Difficulties )
  => LET category == IF HasKeyword(applied.role, TechnicalKeywords) THEN "technical"
                     ELSE IF HasKeyword(applied.role, BusinessKeywords) THEN "business"
                     ELSE "general"
     IN applied.result = SubSeq(fallbackQuestions(easy, category), 1, 5)

\* the weight of an answer by the length of the answer without the white space
\* around it, in hundredths
TrimmedBand(answer) ==
  IF Falsy(answer) \/ Length(Trim(answer)) < 10 THEN 30
  ELSE IF Length(Trim(answer)) < 50 THEN 50
  ELSE IF Length(Trim(answer)) < 150 THEN 75
  ELSE 90

RECURSIVE SumTrimmedBand(_)
SumTrimmedBand(answers) ==
  IF answers = <<>> THEN 0
  ELSE TrimmedBand(Head(answers)) + SumTrimmedBand(Tail(answers))

(***************************************************************************)
(* C28.  In getFallbackEvaluation the weight of an answer depends on the   *)
(* length of the trimmed answer only (below 10: 0.3, below 50: 0.5, below  *)
(* 150: 0.75, otherwise 0.9), so the scores returned for a list of answers *)
(* are those of the base score Math.round(50 + 40 * mean of these weights) *)
(* with the three random offsets: white space around an answer never moves *)
(* it into a higher band.                                                  *)
(***************************************************************************)
C28_WeightByTrimmedLength ==
  ( /\ applied.fn = "getFallbackEvaluation"
    /\ applied.answers # << >> )
  => LET len == Len(applied.answers)
         baseScore == Num((505 * len + 4 * SumTrimmedBand(applied.answers)) \div (10 * len))
     IN /\ applied.result.clarityScore = JitteredScore(baseScore, applied.draws[1])
        /\ applied.result.correctnessScore = JitteredScore(baseScore, applied.draws[2])
        /\ applied.result.communicationScore = JitteredScore(baseScore, applied.draws[3])

(***************************************************************************)
(* C29.  The evaluation of a result with usedFallback = true has no        *)
(* per-question breakdown, and submitInterview takes that as valid: the    *)
(* request is answered 200, the session is saved with that evaluation and  *)
(* with strongestQuestionIndex and weakestQuestionIndex null, and nothing  *)
(* is added to the session's aiUsage.                                      *)
(***************************************************************************)
C29_FallbackSubmitSucceeds ==
  [][ ( /\ request.stage = "awaiting"
        /\ request.endpoint = "submit"
        /\ request'.stage # "awaiting"
        /\ call.outcome # "raised"
        /\ call.result.usedFallback )
      => /\ ~HasPerQuestion(call.result.evaluation)
         /\ request'.stage = "responded"
         /\ request'.status = 200
         /\ sessions'[request.sessionId].evaluation = call.result.evaluation
         /\ sessions'[request.sessionId].answers = call.answers
         /\ sessions'[request.sessionId].strongestQuestionIndex = NoIndex
         /\ sessions'[request.sessionId].weakestQuestionIndex = NoIndex
         /\ sessions'[request.sessionId].aiUsage = sessions[request.sessionId].aiUsage ]_vars

\* a submit answered 200, the key being set, whose evaluation is the fallback's:
\* the session holds the answers and the evaluation, no index, and no usage
\* entry for the evaluation
C29_Witness ==
  /\ apiKey
  /\ request.stage = "responded"
  /\ request.endpoint = "submit"
  /\ request.status = 200
  /\ sessions[request.sessionId].evaluation
       = getFallbackEvaluation(sessions[request.sessionId].answers, << 0, 7, 14 >>)
  /\ request.data.evaluation = sessions[request.sessionId].evaluation
  /\ ~HasPerQuestion(sessions[request.sessionId].evaluation)
  /\ sessions[request.sessionId].answers # << >>
  /\ sessions[request.sessionId].strongestQuestionIndex = NoIndex
  /\ \A i \in DOMAIN sessions[request.sessionId].aiUsage :
       sessions[request.sessionId].aiUsage[i] # "evaluation"

\* the request handled in this step is one of user u
RequestOf(u) == lastRequest'.seq # lastRequest.seq /\ lastRequest'.user = u

\* every timestamp stored for u is more than CleanupWindowMs old
LongSilent(u) ==
  /\ u \in DOMAIN userRequestTimestamps
  /\ \A i \in DOMAIN userRequestTimestamps[u] :
       now - userRequestTimestamps[u][i] > CleanupWindowMs

(***************************************************************************)
(* C30.  The store gets an entry for a user only in a step that admits a   *)
(* request of that user; a run of the cleanup more than 60 s after the     *)
(* user's last admission deletes the entry; a request of a user without an *)
(* entry is admitted and starts a window holding that request alone; and   *)
(* the entry of a user who stops sending is eventually removed.            *)
(***************************************************************************)
C30_WindowCreatedAndSwept ==
  /\ [][ \A u \in Users :
           /\ (u \notin DOMAIN userRequestTimestamps /\ u \in DOMAIN userRequestTimestamps')
                => RequestOf(u) /\ lastRequest'.next
           /\ (LongSilent(u) /\ now' = now /\ lastRequest' = lastRequest)
                => u \notin DOMAIN userRequestTimestamps'
           /\ (RequestOf(u) /\ u \notin DOMAIN userRequestTimestamps)
                => /\ lastRequest'.next
                   /\ lastRequest'.status = 0
                   /\ userRequestTimestamps'[u] = << now >> ]_vars
  /\ \A u \in Users :
       (u \in DOMAIN userRequestTimestamps) ~> (u \notin DOMAIN userRequestTimestamps)

\* the last request handled was one of u1 and was admitted, so u1 had an
\* entry; nobody has sent a request since, the cleanup has run on that entry,
\* and the store holds nothing for u1
C30_Witness ==
  /\ lastRequest.user = "u1"
  /\ lastRequest.next
  /\ "u1" \in swept
  /\ "u1" \notin DOMAIN userRequestTimestamps
  /\ now > CleanupWindowMs

\* the store had only `users` ever sent a request
Restrict(store, users) == [u \in DOMAIN store \cap users |-> store[u]]

(***************************************************************************)
(* C31.  The rate limiter keeps the users apart.  A request of a user is   *)
(* admitted or rejected, and leaves that user's window, exactly as the     *)
(* middleware would on a store holding that user's entry alone, and it     *)
(* leaves the entry of every other user as it was; a run of the cleanup    *)
(* leaves of a user's entry what it would leave of it in a store holding   *)
(* that entry alone.  So whatever another user sends changes neither the   *)
(* decisions for a user nor that user's stored window.                     *)
(***************************************************************************)
C31_UsersAreIsolated ==
  [][ \A u \in Users :
        LET own == Restrict(userRequestTimestamps, {u})
            alone == aiRateLimiter(DefaultMaxRequests, DefaultWindowMs, own, u, now)
        IN /\ RequestOf(u)
                => /\ lastRequest'.next = alone.next
                   /\ lastRequest'.status = alone.status
                   /\ Restrict(userRequestTimestamps', {u}) = alone.store
                   /\ Restrict(userRequestTimestamps', Users \ {u})
                        = Restrict(userRequestTimestamps, Users \ {u})
           /\ (lastRequest'.seq # lastRequest.seq /\ lastRequest'.user = Anonymous)
                => userRequestTimestamps' = userRequestTimestamps
           /\ (lastRequest' = lastRequest /\ now' = now)
                => Restrict(userRequestTimestamps', {u}) = Cleanup(own, now) ]_vars

\* u1 has used its five admissions of this minute, and the request of u2 that
\* came after them has been admitted
C31_Witness ==
  /\ Len(Younger(StoreGet(userRequestTimestamps, "u1"), now - DefaultWindowMs)) = DefaultMaxRequests
  /\ lastRequest.user = "u2"
  /\ lastRequest.next
  /\ lastRequest.trailing < DefaultMaxRequests

\* the timestamps stored for u that are at most DefaultWindowMs old
NotOlder(u) ==
  SelectSeq(StoreGet(userRequestTimestamps, u), LAMBDA ts : now - ts <= DefaultWindowMs)

(***************************************************************************)
(* C32.  The admission check drops only the timestamps that are more than  *)
(* 60000 ms old: one that is exactly 60000 ms old still counts, so a       *)
(* request that finds five timestamps at most 60000 ms old, such as one    *)
(* arriving exactly 60000 ms after five admissions made at one instant, is *)
(* rejected with 429.                                                      *)
(***************************************************************************)
C32_SixtySecondsOldStillCounts ==
  [][ \A u \in Users :
        (RequestOf(u) /\ Len(NotOlder(u)) >= DefaultMaxRequests)
          => /\ ~lastRequest'.next
             /\ lastRequest'.status = 429 ]_vars

(***************************************************************************)
(* C33.  The provider client is created lazily and cached for the process. *)
(* No more than one client is ever constructed; once openaiClient holds a  *)
(* client it holds that client for good, and a gateway call then gets that *)
(* client whether the key is set or not, the configuration not being read; *)
(* a call made while the cache is empty and the key is missing constructs  *)
(* nothing and leaves the cache empty, and a call made while the cache is  *)
(* empty and the key is set reads it and constructs the one client.        *)
(***************************************************************************)
C33_OneClientLazilyCached ==
  [][ /\ clientsCreated' <= 1
      /\ openaiClient # NoClient
           => /\ openaiClient' = openaiClient
              /\ clientsCreated' = clientsCreated
              /\ \A key \in BOOLEAN :
                   LET got == getOpenAIClient(openaiClient, key, clientsCreated)
                   IN got.ok /\ got.client = openaiClient
      /\ (nCalls' # nCalls /\ openaiClient = NoClient /\ ~apiKey)
           => /\ openaiClient' = NoClient
              /\ clientsCreated' = clientsCreated
              /\ call'.cause = "config"
      /\ (nCalls' # nCalls /\ openaiClient = NoClient /\ apiKey)
           => /\ openaiClient' # NoClient
              /\ clientsCreated' = clientsCreated + 1
              /\ call'.cause # "config" ]_vars

\* the third call of the process is under way with the one client there is
C33_Witness ==
  /\ nCalls = MaxCalls
  /\ clientsCreated = 1
  /\ openaiClient = 1
  /\ call.pc = "racing"

(***************************************************************************)
(* C34.  Only a request that calls the gateway uses up an admission: a     *)
(* start or submit request the controller answers 400 or 404, for a        *)
(* missing or invalid field or an unknown session, with no gateway call,   *)
(* adds no timestamp to the rate window of its sender.                     *)
(***************************************************************************)
C34_RefusedRequestUsesNoSlot ==
  [][ ( /\ request'.seq # request.seq
        /\ request'.endpoint \in {"start", "submit"}
        /\ request'.status \in {400, 404}
        /\ nCalls' = nCalls )
      => userRequestTimestamps' = userRequestTimestamps ]_vars

\* the timestamps stored for u that the middleware counts at this moment
Counted(u) == Younger(StoreGet(userRequestTimestamps, u), now - DefaultWindowMs)

(***************************************************************************)
(* C35.  The start route and the submit route draw on one budget per user. *)
(* A request of a user to either route is answered 429, with the store     *)
(* left alone and no gateway call, exactly when the one entry of that user *)
(* holds 5 timestamps of the trailing 60 s, whichever routes they came     *)
(* from, and otherwise its timestamp is appended to that same entry; so a  *)
(* user never has more than 5 admissions in a trailing 60 s over both      *)
(* routes together.                                                        *)
(***************************************************************************)
C35_OneBudgetForBothRoutes ==
  /\ [](\A u \in Users : Len(Counted(u)) <= DefaultMaxRequests
                         /\ Len(admissions[u]) <= DefaultMaxRequests)
  /\ [][ \A u \in Users, endpoint \in {"start", "submit"} :
           ( /\ request'.seq # request.seq
             /\ request'.user = u
             /\ request'.endpoint = endpoint )
           => IF Len(Counted(u)) >= DefaultMaxRequests
                THEN /\ request'.status = 429
                     /\ request'.stage = "responded"
                     /\ userRequestTimestamps' = userRequestTimestamps
                     /\ nCalls' = nCalls
                ELSE /\ request'.status # 429
                     /\ StoreGet(userRequestTimestamps', u) = Append(Counted(u), now)
                     /\ DOMAIN userRequestTimestamps' \subseteq Users ]_vars

\* u1 started an interview, which took one of its admissions, and after four
\* more requests its submit is answered 429
C35_Witness ==
  /\ Len(sessions) >= 1
  /\ sessions[1].userId = "u1"
  /\ request.user = "u1"
  /\ request.endpoint = "submit"
  /\ request.status = 429
  /\ Len(Counted("u1")) = DefaultMaxRequests

\* the sessions submitInterview has saved: only it stores answers and scores
Completed == SelectSeq(sessions, LAMBDA session : "clarityScore" \in DOMAIN session.evaluation)

(***************************************************************************)
(* C36.  The analytics count completed interviews only: whatever was       *)
(* started and submitted before, the totalInterviews, averageScore,        *)
(* lastFiveScores and improvementTrend answered to a user are those of the *)
(* user's submitted sessions alone, a session that was started and never   *)
(* successfully submitted adding nothing to them.                          *)
(***************************************************************************)
C36_AnalyticsOfCompletedOnly ==
  ( /\ request.endpoint = "analytics"
    /\ request.stage = "responded" )
  => LET completed == getInterviewAnalytics(Completed, request.user)
     IN /\ request.data.totalInterviews = completed.totalInterviews
        /\ request.data.averageScore = completed.averageScore
        /\ request.data.lastFiveScores = completed.lastFiveScores
        /\ request.data.improvementTrend = completed.improvementTrend
====
